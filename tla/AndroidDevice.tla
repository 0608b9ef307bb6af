--------------------------- MODULE AndroidDevice ---------------------------
(***************************************************************************)
(* The connection life cycle of R2RpcDevice in the Android SDK: the        *)
(* application's thread in start(), stop() and close(), the coroutines of  *)
(* scheduleReconnect, and OkHttp's listener thread of every WebSocket, all *)
(* around the unguarded fields webSocket and reconnectJob.                 *)
(*                                                                         *)
(* A step is one access to a shared field, with the local work around it   *)
(* and the call on the object read from the field; accesses are            *)
(* sequentially consistent, which is the best the JVM may do.  Jobs,       *)
(* heartbeats and the reported state do not steer the connection.  What    *)
(* close() does to an HTTP client of the device's own is among the         *)
(* failures any socket may meet.                                           *)
(*                                                                         *)
(* OkHttp 4.12 is external.  A close frame of the server is reported as    *)
(* onClosing, which the listener does not override.  onClosed follows only *)
(* if the device has asked for the close as well; a socket it never closes *)
(* fails at a later ping, with an onFailure that carries no close code.    *)
(***************************************************************************)
EXTENDS Naturals

CONSTANTS
    Sockets, \* WebSockets the device creates in all: a bound
    Tasks,   \* reconnect coroutines it launches in all: a bound
    None

VARIABLES
    running,      \* the AtomicBoolean
    webSocket,    \* the field
    sock,         \* sock[s]: the WebSocket itself
    asked,        \* sockets on which the device called close
    refused,      \* sockets the server closed with 4001, unauthorized
    told,         \* sockets whose listener is given that code
    app,          \* where the application's thread stands
    created,      \* the socket start() has just created
    closing,      \* whether it is in close(), which begins with a stop()
    listener,     \* listener[s]: where the listener thread of s stands
    launched,     \* launched[s]: the coroutine it has just launched
    task,         \* task[t]: where coroutine t stands
    made,         \* made[t]: the socket t has just created
    cancelled,    \* coroutines that were cancelled
    reconnectJob  \* the field: the last coroutine launched, or None

okHttp == <<asked, refused, told>>
vars == <<running, webSocket, sock, okHttp, app, created, closing, listener, launched, task,
          made, cancelled, reconnectJob>>

-----------------------------------------------------------------------------
TypeOK ==
    /\ running \in BOOLEAN
    /\ webSocket \in Sockets \cup {None}
    /\ sock \in [Sockets -> {"unused", "connecting", "open", "closing", "ended"}]
    /\ asked \subseteq Sockets /\ refused \subseteq Sockets /\ told \subseteq refused
    /\ app \in {"idle", "create", "assign", "cancel", "close", "forget", "scope"}
    /\ closing \in BOOLEAN
    /\ created \in Sockets \cup {None}
    /\ listener \in [Sockets -> {"wait", "ended", "forget", "decide", "unauthorized",
                              "schedule", "look", "launch", "assign", "gone"}]
    /\ launched \in [Sockets -> Tasks \cup {None}]
    /\ task \in [Tasks -> {"unused", "delay", "check", "create", "assign", "ending",
                         "done"}]
    /\ made \in [Tasks -> Sockets \cup {None}]
    /\ cancelled \subseteq Tasks
    /\ reconnectJob \in Tasks \cup {None}

Init ==
    /\ running = FALSE
    /\ webSocket = None
    /\ sock = [s \in Sockets |-> "unused"]
    /\ asked = {} /\ refused = {} /\ told = {}
    /\ app = "idle" /\ created = None /\ closing = FALSE
    /\ listener = [s \in Sockets |-> "wait"]
    /\ launched = [s \in Sockets |-> None]
    /\ task = [t \in Tasks |-> "unused"]
    /\ made = [t \in Tasks |-> None]
    /\ cancelled = {}
    /\ reconnectJob = None

-----------------------------------------------------------------------------
(* The application's thread.                                                *)

\* start: compareAndSet(false, true).
Start ==
    /\ app = "idle" /\ ~running
    /\ running' = TRUE
    /\ app' = "create"
    /\ UNCHANGED <<okHttp, webSocket, sock, created, listener, task, made, cancelled,
                   reconnectJob, closing, launched>>

\* openConnection: newWebSocket returns while OkHttp already connects ...
StartCreates(s) ==
    /\ app = "create"
    /\ sock[s] = "unused"
    /\ sock' = [sock EXCEPT ![s] = "connecting"]
    /\ created' = s
    /\ app' = "assign"
    /\ UNCHANGED <<okHttp, running, webSocket, listener, task, made, cancelled,
                   reconnectJob, closing, launched>>

\* ... and only then is the field assigned.
StartAssigns ==
    /\ app = "assign"
    /\ webSocket' = created
    /\ created' = None
    /\ app' = "idle"
    /\ UNCHANGED <<okHttp, running, sock, listener, task, made, cancelled, reconnectJob,
                   closing, launched>>

\* stop, or close: compareAndSet(true, false).
Stop ==
    /\ app = "idle" /\ running
    /\ running' = FALSE
    /\ app' = "cancel"
    /\ closing' \in BOOLEAN
    /\ UNCHANGED <<okHttp, webSocket, sock, created, listener, launched, task, made,
                   cancelled, reconnectJob>>

\* close: its stop() finds the device stopped.
Close ==
    /\ app = "idle" /\ ~running
    /\ app' = "scope"
    /\ UNCHANGED <<okHttp, running, webSocket, sock, created, closing, listener, launched,
                   task, made, cancelled, reconnectJob>>

StopCancels ==
    /\ app = "cancel"
    /\ cancelled' = IF reconnectJob = None THEN cancelled
                                           ELSE cancelled \cup {reconnectJob}
    /\ app' = "close"
    /\ UNCHANGED <<okHttp, running, webSocket, sock, created, listener, task, made,
                   reconnectJob, closing, launched>>

StopCloses ==
    /\ app = "close"
    /\ asked' = asked \cup ({webSocket} \ {None})
    /\ app' = "forget"
    /\ UNCHANGED <<running, webSocket, sock, refused, told, created, listener, task, made,
                   cancelled, reconnectJob, closing, launched>>

StopForgets ==
    /\ app = "forget"
    /\ webSocket' = None
    /\ app' = IF closing THEN "scope" ELSE "idle"
    /\ closing' = FALSE
    /\ UNCHANGED <<okHttp, running, sock, created, listener, launched, task, made,
                   cancelled, reconnectJob>>

\* close: no coroutine of the scope, launched or still to be, gets past a delay.
CloseCancels ==
    /\ app = "scope"
    /\ cancelled' = Tasks
    /\ app' = "idle"
    /\ UNCHANGED <<okHttp, running, webSocket, sock, created, closing, listener, launched,
                   task, made, reconnectJob>>

-----------------------------------------------------------------------------
(* A reconnect coroutine.                                                   *)

\* delay() is where a cancellation takes effect.
DelayEnds(t) ==
    /\ task[t] = "delay"
    /\ task' = [task EXCEPT ![t] = IF t \in cancelled THEN "done" ELSE "check"]
    /\ UNCHANGED <<okHttp, running, webSocket, sock, app, created, listener, made,
                   cancelled, reconnectJob, closing, launched>>

TaskChecks(t) ==
    /\ task[t] = "check"
    /\ task' = [task EXCEPT ![t] = IF running THEN "create" ELSE "done"]
    /\ UNCHANGED <<okHttp, running, webSocket, sock, app, created, listener, made,
                   cancelled, reconnectJob, closing, launched>>

TaskCreates(t, s) ==
    /\ task[t] = "create"
    /\ sock[s] = "unused"
    /\ sock' = [sock EXCEPT ![s] = "connecting"]
    /\ made' = [made EXCEPT ![t] = s]
    /\ task' = [task EXCEPT ![t] = "assign"]
    /\ UNCHANGED <<okHttp, running, webSocket, app, created, listener, cancelled,
                   reconnectJob, closing, launched>>

TaskAssigns(t) ==
    /\ task[t] = "assign"
    /\ webSocket' = made[t]
    /\ made' = [made EXCEPT ![t] = None]
    /\ task' = [task EXCEPT ![t] = "ending"]
    /\ UNCHANGED <<okHttp, running, sock, app, created, listener, cancelled, reconnectJob,
                   closing, launched>>

\* Only now is the coroutine no longer active.
TaskEnds(t) ==
    /\ task[t] = "ending"
    /\ task' = [task EXCEPT ![t] = "done"]
    /\ UNCHANGED <<okHttp, running, webSocket, sock, app, created, listener, made,
                   cancelled, reconnectJob, closing, launched>>

-----------------------------------------------------------------------------
(* The listener thread of a socket.                                         *)

\* onOpen: a socket that is not the field's is cancelled, and fails.
Opens(s) ==
    /\ sock[s] = "connecting"
    /\ sock' = [sock EXCEPT ![s] = IF webSocket = s THEN "open" ELSE "ended"]
    /\ listener' = [listener EXCEPT ![s] = IF webSocket = s THEN "wait" ELSE "ended"]
    /\ UNCHANGED <<okHttp, running, webSocket, app, created, task, made, cancelled,
                   reconnectJob, closing, launched>>

\* handleWelcome: a welcome for another clientId closes the field's socket, 4003.  That
\* the handler reads the field twice is left out.
WrongWelcome(s) ==
    /\ sock[s] = "open" /\ webSocket = s
    /\ asked' = asked \cup {s}
    /\ UNCHANGED <<running, webSocket, sock, refused, told, app, created, listener, task,
                   made, cancelled, reconnectJob, closing, launched>>

\* The server's close frame: onClosed at once if the device has asked for a close,
\* otherwise only onClosing.
ServerCloses(s, unauthorized) ==
    /\ sock[s] = "open"
    /\ refused' = IF unauthorized THEN refused \cup {s} ELSE refused
    /\ IF s \in asked
       THEN /\ sock' = [sock EXCEPT ![s] = "ended"]
            /\ listener' = [listener EXCEPT ![s] = "ended"]
            /\ told' = IF unauthorized THEN told \cup {s} ELSE told
       ELSE /\ sock' = [sock EXCEPT ![s] = "closing"]
            /\ UNCHANGED <<listener, told>>
    /\ UNCHANGED <<running, webSocket, asked, app, created, task, made, cancelled,
                   reconnectJob, closing, launched>>

\* The device's close answers the server's frame: onClosed.
CloseCompletes(s) ==
    /\ sock[s] = "closing" /\ s \in asked
    /\ sock' = [sock EXCEPT ![s] = "ended"]
    /\ listener' = [listener EXCEPT ![s] = "ended"]
    /\ told' = told \cup ({s} \cap refused)
    /\ UNCHANGED <<running, webSocket, asked, refused, app, created, task, made, cancelled,
                   reconnectJob, closing, launched>>

\* onFailure.
Fails(s) ==
    /\ sock[s] \in {"connecting", "open", "closing"}
    /\ sock' = [sock EXCEPT ![s] = "ended"]
    /\ listener' = [listener EXCEPT ![s] = "ended"]
    /\ UNCHANGED <<okHttp, running, webSocket, app, created, task, made, cancelled,
                   reconnectJob, closing, launched>>

\* handleDisconnection: the end of a socket that is not the field's is ignored.
Disconnected(s) ==
    /\ listener[s] = "ended"
    /\ listener' = [listener EXCEPT ![s] = IF webSocket = s THEN "forget" ELSE "gone"]
    /\ UNCHANGED <<okHttp, running, webSocket, sock, app, created, task, made, cancelled,
                   reconnectJob, closing, launched>>

ListenerForgets(s) ==
    /\ listener[s] = "forget"
    /\ webSocket' = None
    /\ listener' = [listener EXCEPT ![s] = "decide"]
    /\ UNCHANGED <<okHttp, running, sock, app, created, task, made, cancelled, reconnectJob,
                   closing, launched>>

\* Close code 4001 ends the device, anything else leads on to scheduleReconnect.
ListenerDecides(s) ==
    /\ listener[s] = "decide"
    /\ listener' = [listener EXCEPT ![s] =
           IF ~running THEN "gone" ELSE IF s \in told THEN "unauthorized" ELSE "schedule"]
    /\ UNCHANGED <<okHttp, running, webSocket, sock, app, created, closing, launched, task,
                   made, cancelled, reconnectJob>>

ListenerStops(s) ==
    /\ listener[s] = "unauthorized"
    /\ running' = FALSE
    /\ listener' = [listener EXCEPT ![s] = "gone"]
    /\ UNCHANGED <<okHttp, webSocket, sock, app, created, closing, launched, task, made,
                   cancelled, reconnectJob>>

Active(t) == task[t] \notin {"unused", "done"} /\ t \notin cancelled

\* scheduleReconnect reads running, ...
ListenerSchedules(s) ==
    /\ listener[s] = "schedule"
    /\ listener' = [listener EXCEPT ![s] = IF running THEN "look" ELSE "gone"]
    /\ UNCHANGED <<okHttp, running, webSocket, sock, app, created, closing, launched, task,
                   made, cancelled, reconnectJob>>

\* ... then whether a coroutine is active, ...
ListenerLooks(s) ==
    /\ listener[s] = "look"
    /\ listener' = [listener EXCEPT ![s] =
           IF reconnectJob # None /\ Active(reconnectJob) THEN "gone" ELSE "launch"]
    /\ UNCHANGED <<okHttp, running, webSocket, sock, app, created, closing, launched, task,
                   made, cancelled, reconnectJob>>

\* ... launches one, which runs at once, ...
ListenerLaunches(s, t) ==
    /\ listener[s] = "launch"
    /\ task[t] = "unused"
    /\ task' = [task EXCEPT ![t] = "delay"]
    /\ launched' = [launched EXCEPT ![s] = t]
    /\ listener' = [listener EXCEPT ![s] = "assign"]
    /\ UNCHANGED <<okHttp, running, webSocket, sock, app, created, closing, made, cancelled,
                   reconnectJob>>

\* ... and only then assigns the field.
ListenerAssigns(s) ==
    /\ listener[s] = "assign"
    /\ reconnectJob' = launched[s]
    /\ launched' = [launched EXCEPT ![s] = None]
    /\ listener' = [listener EXCEPT ![s] = "gone"]
    /\ UNCHANGED <<okHttp, running, webSocket, sock, app, created, closing, task, made,
                   cancelled>>

-----------------------------------------------------------------------------
Next ==
    \/ Start \/ StartAssigns
    \/ Stop \/ StopCancels \/ StopCloses \/ StopForgets
    \/ Close \/ CloseCancels
    \/ \E s \in Sockets :
          \/ StartCreates(s) \/ Opens(s) \/ WrongWelcome(s)
          \/ \E unauthorized \in BOOLEAN : ServerCloses(s, unauthorized)
          \/ CloseCompletes(s) \/ Fails(s)
          \/ Disconnected(s) \/ ListenerForgets(s) \/ ListenerDecides(s) \/ ListenerStops(s)
          \/ ListenerSchedules(s) \/ ListenerLooks(s) \/ ListenerAssigns(s)
          \/ \E t \in Tasks : ListenerLaunches(s, t) \/ TaskCreates(t, s)
    \/ \E t \in Tasks : DelayEnds(t) \/ TaskChecks(t) \/ TaskAssigns(t) \/ TaskEnds(t)

Spec == Init /\ [][Next]_vars

-----------------------------------------------------------------------------
\* sdk/README.md:28: the SDK stops reconnecting after an authentication failure.  The
\* listener of a socket the server closed with 4001 never gets to scheduleReconnect.
RefusedStops == \A s \in refused : listener[s] # "schedule"
=============================================================================
