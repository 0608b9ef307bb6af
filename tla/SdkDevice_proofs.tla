-------------------------- MODULE SdkDevice_proofs --------------------------
(* Proofs about SdkDevice, for any number of sockets, jobs and timers.       *)
EXTENDS SdkDevice, TLAPS

LEMMA DeviceInvInit == Init => DeviceInv
<1> SUFFICES ASSUME Init PROVE DeviceInv
  OBVIOUS
<1>0. MaxTimers \in Nat /\ MaxTimers > 0
  BY SdkDeviceConstants
<1>1. TypeOK
  <2>1. /\ sock \in [Sockets -> {"unused", "closed"} \cup Live]
        /\ job \in [Jobs -> {"new", "running", "late", "answered", "dropped"}]
        /\ via \in [Jobs -> Sockets \cup {None}]
    BY DEF Init
  <2>2. timers \in 0..MaxTimers
    BY <1>0 DEF Init
  <2>3. /\ shouldRun \in BOOLEAN /\ tracked \in BOOLEAN
        /\ heartbeat \in BOOLEAN /\ interrupted \in BOOLEAN
    BY Zenon DEF Init
  <2>4. /\ state \in {"idle", "connecting", "reconnecting", "online", "stopped"}
        /\ socket \in Sockets \cup {None}
        /\ rest \in {"none", "open", "timer", "heartbeat", "close"}
        /\ again \in {"no", "open", "done"}
    BY DEF Init
  <2> QED
    BY <2>1, <2>2, <2>3, <2>4 DEF TypeOK
<1>2. FieldsAgree /\ TimersBounded /\ CarriedOn /\ BeatsSoon
  <2>1. TimersBounded
    BY <1>0 DEF Init, TimersBounded
  <2>2. FieldsAgree /\ CarriedOn /\ BeatsSoon
    BY DEF Init, FieldsAgree, CarriedOn, BeatsSoon
  <2> QED
    BY <2>1, <2>2
<1>3. OneThing
  BY DEF Init, OneThing
<1> QED
  BY <1>1, <1>2, <1>3 DEF DeviceInv

LEMMA DeviceInvNext == DeviceInv /\ [Next]_vars => DeviceInv'
<1> SUFFICES ASSUME DeviceInv, [Next]_vars PROVE DeviceInv'
  OBVIOUS
<1>0. None \notin Sockets /\ MaxTimers \in Nat /\ MaxTimers > 0
  BY SdkDeviceConstants
<1> USE <1>0 DEF DeviceInv, TypeOK, FieldsAgree, TimersBounded, CarriedOn, BeatsSoon,
                OneThing, Live, Idle, connVars
<1>1. CASE Start
  BY <1>1 DEF Start
<1>16. CASE StartAgain
  BY <1>16 DEF StartAgain
<1>2. CASE Stop
  <2>1. TypeOK'
    <3>1. sock' \in [Sockets -> {"unused", "closed"} \cup Live]
      BY <1>2 DEF Stop, CloseCurrent
    <3>2. timers' \in 0..MaxTimers
      BY <1>2 DEF Stop, ClearTimers, CloseCurrent
    <3>3. interrupted' \in BOOLEAN
      <4>1. CASE Idle
        BY Zenon, <1>2, <4>1 DEF Stop
      <4>2. CASE ~Idle
        BY <1>2, <4>2 DEF Stop
      <4> QED
        BY <4>1, <4>2
    <3> QED
      BY <1>2, <3>1, <3>2, <3>3 DEF Stop, ClearTimers
  <2>2. FieldsAgree'
    BY <1>2 DEF Stop, ClearTimers, CloseCurrent
  <2>3. TimersBounded'
    BY <1>2 DEF Stop, ClearTimers, CloseCurrent
  <2>4. CarriedOn' /\ BeatsSoon'
    BY <1>2 DEF Stop, ClearTimers, CloseCurrent
  <2>5. OneThing'
    <3>1. CASE ~Idle
      BY <1>2, <3>1 DEF Stop
    <3>2. CASE Idle /\ ~interrupted
      BY <1>2, <3>2 DEF Stop, ClearTimers, CloseCurrent
    <3>3. CASE Idle /\ interrupted /\ ~LeftBehind'
      BY <1>2, <3>3 DEF Stop, ClearTimers, LeftBehind
    <3>4. CASE Idle /\ interrupted /\ LeftBehind'
      BY <1>2, <3>4 DEF Stop
    <3> QED
      BY <3>1, <3>2, <3>3, <3>4
  <2> QED
    BY <2>1, <2>2, <2>3, <2>4, <2>5
<1>3. ASSUME NEW s \in Sockets, CreateSocket(s) PROVE DeviceInv'
  BY <1>3 DEF CreateSocket, HandlerEnds
<1>4. CASE ArmTimer
  BY <1>4 DEF ArmTimer, HandlerEnds
<1>5. CASE StartHeartbeat
  BY <1>5 DEF StartHeartbeat, HandlerEnds
<1>17. CASE CloseMismatched
  BY <1>17 DEF CloseMismatched, CloseCurrent, HandlerEnds
<1>6. CASE TimerFires
  <2>1. /\ timers \in Nat /\ timers' = timers - 1 /\ timers > 0 /\ timers <= MaxTimers
        /\ rest = "none" /\ rest' = "open" /\ state' = "reconnecting"
        /\ UNCHANGED <<shouldRun, socket, sock, heartbeat, again, interrupted, job,
                        via>>
    BY <1>6 DEF TimerFires
  <2>2. tracked' = FALSE \/ (timers > 1 /\ tracked' = tracked)
    BY <1>6 DEF TimerFires
  <2>3. TypeOK'
    <3>1. tracked' \in BOOLEAN
      BY <2>2
    <3>2. timers' \in 0..MaxTimers
      BY <2>1
    <3> QED
      BY <2>1, <3>1, <3>2
  <2>4. FieldsAgree'
    BY <2>1, <2>2
  <2>5. TimersBounded'
    BY <2>1, <2>2
  <2>6. CarriedOn' /\ BeatsSoon'
    BY <2>1
  <2>7. OneThing'
    BY <2>1, <2>2
  <2> QED
    BY <2>3, <2>4, <2>5, <2>6, <2>7
<1>7. ASSUME NEW s \in Sockets, Opens(s) PROVE DeviceInv'
  BY <1>7 DEF Opens
<1>8. ASSUME NEW s \in Sockets, Welcome(s) PROVE DeviceInv'
  BY <1>8 DEF Welcome
<1>9. ASSUME NEW s \in Sockets, WrongWelcome(s) PROVE DeviceInv'
  BY <1>9 DEF WrongWelcome
<1>10. ASSUME NEW s \in Sockets, Recycle(s) PROVE DeviceInv'
  BY <1>10 DEF Recycle
<1>11. ASSUME NEW s \in Sockets, NEW code \in {"unauthorized", "other"}, Closed(s, code)
       PROVE  DeviceInv'
  BY <1>11 DEF Closed, Current
<1>12. ASSUME NEW s \in Sockets, NEW j \in Jobs, NEW runs \in BOOLEAN,
              ReceiveJob(s, j, runs)
       PROVE  DeviceInv'
  BY <1>12 DEF ReceiveJob
<1>13. ASSUME NEW j \in Jobs, HandlerReturns(j) PROVE DeviceInv'
  BY <1>13 DEF HandlerReturns, Answer
<1>14. ASSUME NEW j \in Jobs, HandlerTimesOut(j) PROVE DeviceInv'
  BY <1>14 DEF HandlerTimesOut, AnswerTimeout, Answer
<1>15. CASE UNCHANGED vars
  BY <1>15 DEF vars
<1> QED
  BY <1>1, <1>2, <1>3, <1>4, <1>5, <1>6, <1>7, <1>8, <1>9, <1>10, <1>11, <1>12, <1>13,
     <1>14, <1>15, <1>16, <1>17
  DEF Next, Resume

\* What every handler relies on when it starts, and leaves when it is interrupted.
THEOREM DeviceInvHolds == Spec => []DeviceInv
BY DeviceInvInit, DeviceInvNext, PTL DEF Spec

\* Every variable keeps its type; the reconnect timers stay within their bound.
THEOREM TypeCorrect == Spec => []TypeOK
<1>1. DeviceInv => TypeOK
  BY DEF DeviceInv
<1> QED
  BY <1>1, DeviceInvHolds, PTL

\* A device meant to run is never stuck without a connection and without a timer
\* (handleClose, scheduleReconnect), also when callbacks stop and start it.
THEOREM LifelineHolds == Spec => []Lifeline
<1>1. DeviceInv => Lifeline
  BY DEF DeviceInv, TypeOK, FieldsAgree, CarriedOn, Lifeline, Idle
<1> QED
  BY <1>1, DeviceInvHolds, PTL

\* An online device beats on a current socket (handleWelcome, handleClose).
THEOREM OnlineBeatsHolds == Spec => []OnlineBeats
<1>1. DeviceInv => OnlineBeats
  BY DEF DeviceInv, BeatsSoon, OnlineBeats, Idle
<1> QED
  BY <1>1, DeviceInvHolds, PTL

\* No step of a stopped device that stays stopped adds to what it has left, whatever
\* its callbacks have interrupted (stop, handleClose, scheduleReconnect).
LEMMA WindsDownStep ==
    ASSUME DeviceInv, [Next]_vars, ~shouldRun, ~shouldRun'
    PROVE  LeftToDo' <= LeftToDo
<1>0. None \notin Sockets /\ timers \in Nat
  BY SdkDeviceConstants DEF DeviceInv, TypeOK
<1> USE <1>0 DEF LeftToDo, Idle, connVars
<1>1. CASE Start \/ StartAgain
  BY <1>1 DEF Start, StartAgain
<1>2. CASE Stop
  <2>1. timers' \in Nat /\ timers' <= timers
    BY <1>2 DEF Stop, ClearTimers, DeviceInv, FieldsAgree
  <2>2. socket' = None /\ UNCHANGED <<rest, again>>
    BY <1>2 DEF Stop
  <2> QED
    BY <2>1, <2>2
<1>3. ASSUME NEW s \in Sockets, CreateSocket(s) PROVE LeftToDo' <= LeftToDo
  BY <1>3 DEF CreateSocket, HandlerEnds, DeviceInv, FieldsAgree
<1>4. CASE ArmTimer
  BY <1>4 DEF ArmTimer, HandlerEnds, DeviceInv, TypeOK
<1>5. CASE StartHeartbeat \/ CloseMismatched
  BY <1>5 DEF StartHeartbeat, CloseMismatched, HandlerEnds, DeviceInv, TypeOK
<1>6. CASE TimerFires
  BY <1>6 DEF TimerFires
<1>7. ASSUME NEW s \in Sockets, Welcome(s) \/ WrongWelcome(s)
      PROVE  LeftToDo' <= LeftToDo
  BY <1>7 DEF Welcome, WrongWelcome
<1>8. ASSUME NEW s \in Sockets, NEW code \in {"unauthorized", "other"}, Closed(s, code)
      PROVE  LeftToDo' <= LeftToDo
  BY <1>8 DEF Closed
<1>9. CASE UNCHANGED <<timers, rest, again, socket>>
  BY <1>9
<1> QED
  BY <1>1, <1>2, <1>3, <1>4, <1>5, <1>6, <1>7, <1>8, <1>9
  DEF Next, Resume, Opens, Recycle, ReceiveJob, HandlerReturns, HandlerTimesOut, vars

\* A device that is not meant to run only winds down: it finishes what it has and
\* never makes another attempt, also after a stop() out of a callback.
THEOREM StoppedWindsDownHolds == Spec => StoppedWindsDown
<1>1. DeviceInv /\ [Next]_vars => [~shouldRun /\ ~shouldRun' => LeftToDo' <= LeftToDo]_vars
  BY WindsDownStep
<1> QED
  BY <1>1, DeviceInvHolds, PTL DEF Spec, StoppedWindsDown

\* Without such a stop() a device has one connection at a time (openConnection).
THEOREM OneConnectionHolds == Spec => []OneConnection
<1>1. DeviceInv => OneConnection
  BY DEF DeviceInv, OneThing, OneConnection
<1> QED
  BY <1>1, DeviceInvHolds, PTL

-----------------------------------------------------------------------------
(* What must happen.  An unfinished handler goes on, so the loop is idle    *)
(* again and again, and strong fairness lets what is due have its turn.     *)

LEMMA RoomKeptNext == DeviceInv /\ RoomKept /\ [Next]_vars => RoomKept'
<1> SUFFICES ASSUME DeviceInv, RoomKept, [Next]_vars PROVE RoomKept'
  OBVIOUS
<1> USE DEF RoomKept, Room, RoomForTwo, Idle, connVars
<1>0. /\ None \notin Sockets
      /\ sock \in [Sockets -> {"unused", "closed"} \cup Live]
      /\ socket # None => sock[socket] # "unused"
      /\ again # "no" => ~Idle
  BY SdkDeviceConstants DEF DeviceInv, TypeOK, FieldsAgree, Live
<1>1. CASE Start \/ StartAgain
  BY <1>0, <1>1 DEF Start, StartAgain
<1>2. CASE Stop \/ CloseMismatched
  <2>1. \A s \in Sockets : sock[s] = "unused" => sock'[s] = "unused"
    BY <1>0, <1>2 DEF Stop, CloseMismatched, CloseCurrent
  <2>2. UNCHANGED <<rest, again>> \/ HandlerEnds
    BY <1>2 DEF Stop, CloseMismatched
  <2> QED
    BY <2>1, <2>2 DEF HandlerEnds
<1>3. ASSUME NEW s \in Sockets, CreateSocket(s) PROVE RoomKept'
  BY <1>0, <1>3 DEF CreateSocket, HandlerEnds
<1>4. CASE ArmTimer \/ StartHeartbeat
  BY <1>4 DEF ArmTimer, StartHeartbeat, HandlerEnds
<1>5. CASE TimerFires
  BY <1>0, <1>5 DEF TimerFires
<1>6. ASSUME NEW s \in Sockets, Recycle(s) PROVE RoomKept'
  BY <1>0, <1>6 DEF Recycle
<1>7. ASSUME NEW s \in Sockets,
             Opens(s) \/ Welcome(s) \/ WrongWelcome(s)
               \/ \E code \in {"unauthorized", "other"} : Closed(s, code)
      PROVE  RoomKept'
  BY <1>0, <1>7 DEF Opens, Welcome, WrongWelcome, Closed
<1>8. CASE UNCHANGED connVars
  BY <1>8
<1> QED
  BY <1>1, <1>2, <1>3, <1>4, <1>5, <1>6, <1>7, <1>8
  DEF Next, Resume, ReceiveJob, HandlerReturns, HandlerTimesOut, vars

LEMMA RoomKeptHolds == Spec => [](DeviceInv /\ RoomKept)
<1>1. Init => RoomKept
  BY DEF Init, RoomKept
<1> QED
  BY <1>1, DeviceInvHolds, RoomKeptNext, PTL DEF Spec

\* An unfinished handler: before, during and after a start() from its callback.
Unfinished(a) == ~Idle /\ again = a

LEMMA UnfinishedMoves ==
    ASSUME DeviceInv, [Next]_vars
    PROVE  /\ Unfinished("no") =>
                  Unfinished("no")' \/ Unfinished("open")' \/ Idle'
           /\ Unfinished("open") => Unfinished("open")' \/ Unfinished("done")'
           /\ Unfinished("done") => Unfinished("done")' \/ Idle'
           /\ Unfinished("no") /\ Resume => Idle'
           /\ Unfinished("open") /\ Resume => Unfinished("done")'
           /\ Unfinished("done") /\ Resume => Idle'
<1> USE DEF Unfinished, Idle, connVars
<1>1. CASE Resume
  BY <1>1 DEF Resume, CreateSocket, ArmTimer, StartHeartbeat, CloseMismatched,
              HandlerEnds
<1>2. CASE StartAgain /\ ~Resume
  BY <1>2 DEF StartAgain
<1>3. CASE Idle \/ (UNCHANGED <<rest, again>> /\ ~Resume)
  BY <1>3 DEF Resume, CreateSocket, ArmTimer, StartHeartbeat, CloseMismatched
<1> QED
  BY <1>1, <1>2, <1>3
  DEF Next, Start, Stop, TimerFires, Opens, Welcome, WrongWelcome, Recycle, Closed,
      ReceiveJob, HandlerReturns, HandlerTimesOut, vars

LEMMA IdleAgain == FairSpec /\ []DueCanRun => []<>Idle
<1> DEFINE A == Unfinished("no")
           B == Unfinished("open")
           C == Unfinished("done")
<1>1. DeviceInv /\ [Next]_vars
        => /\ A => A' \/ B' \/ Idle'
           /\ B => B' \/ C'
           /\ C => C' \/ Idle'
           /\ A /\ <<Resume>>_vars => Idle'
           /\ B /\ <<Resume>>_vars => C'
           /\ C /\ <<Resume>>_vars => Idle'
  BY UnfinishedMoves
<1>2. DeviceInv /\ RoomKept /\ DueCanRun => (A \/ B \/ C => ENABLED <<Resume>>_vars)
  BY DEF DueCanRun, Unfinished
<1>3. DeviceInv => Idle \/ A \/ B \/ C
  BY DEF DeviceInv, TypeOK, Unfinished
<1> HIDE DEF A, B, C
<1> QED
  BY <1>1, <1>2, <1>3, RoomKeptHolds, PTL DEF FairSpec, Spec, Fairness, LoopFair

\* Every job whose handler was started is answered or dropped, whatever the
\* handler does and however often the device is stopped in between.
THEOREM JobsEndHolds == FairSpec /\ []DueCanRun => JobsEnd
<1>1. ASSUME NEW j \in Jobs
      PROVE  FairSpec /\ []DueCanRun
               => (job[j] = "running" ~> job[j] \in {"answered", "dropped"})
  <2> DEFINE Ends == job[j] \in {"answered", "dropped"}
  <2>1. DeviceInv /\ job[j] = "running" /\ [Next]_vars
          => (job[j] = "running")' \/ Ends'
    <3> SUFFICES ASSUME DeviceInv, job[j] = "running", [Next]_vars
                 PROVE  (job[j] = "running")' \/ Ends'
      OBVIOUS
    <3> USE DEF DeviceInv, TypeOK, connVars
    <3>1. ASSUME NEW s \in Sockets, NEW i \in Jobs, NEW runs \in BOOLEAN,
                 ReceiveJob(s, i, runs)
          PROVE  (job[j] = "running")' \/ Ends'
      BY <3>1 DEF ReceiveJob
    <3>2. ASSUME NEW i \in Jobs, HandlerReturns(i) \/ HandlerTimesOut(i)
          PROVE  (job[j] = "running")' \/ Ends'
      BY <3>2 DEF HandlerReturns, HandlerTimesOut, AnswerTimeout, Answer
    <3>3. CASE UNCHANGED job
      BY <3>3
    <3> QED
      BY <3>1, <3>2, <3>3
      DEF Next, Start, StartAgain, Stop, Resume, CreateSocket, ArmTimer,
          StartHeartbeat, CloseMismatched, TimerFires, Opens, Welcome, WrongWelcome, Recycle, Closed, vars
  <2>2. DeviceInv /\ <<HandlerTimesOut(j)>>_vars => Ends'
    BY DEF HandlerTimesOut, AnswerTimeout, Answer, DeviceInv, TypeOK
  <2>3. DueCanRun /\ Idle /\ job[j] = "running"
          => ENABLED <<HandlerTimesOut(j)>>_vars
    BY DEF DueCanRun
  <2>4. FairSpec => JobFair(j)
    BY DEF FairSpec, Fairness
  <2> QED
    BY <2>1, <2>2, <2>3, <2>4, IdleAgain, DeviceInvHolds, PTL DEF FairSpec, Spec, JobFair
<1> QED
  BY <1>1 DEF JobsEnd

\* A device without a connection is about to open one, about to arm a timer, or
\* waits for one.
Unconnected == shouldRun /\ socket = None
Opening == Unconnected /\ (rest = "open" \/ again = "open")
Arming == Unconnected /\ rest = "timer" /\ again # "open"
Waiting == Unconnected /\ rest # "open" /\ again # "open" /\ timers > 0

LEMMA UnconnectedCases == DeviceInv => (Unconnected => Opening \/ Arming \/ Waiting)
BY DEF DeviceInv, CarriedOn, Unconnected, Opening, Arming, Waiting

\* How a device that stays unconnected moves between the three.
LEMMA UnconnectedMoves ==
    ASSUME DeviceInv, [Next]_vars, Unconnected'
    PROVE  /\ Opening => Opening' /\ ~Resume
           /\ Arming => Arming' \/ Waiting'
           /\ Waiting => Waiting' \/ Opening'
           /\ Waiting /\ TimerFires => Opening'
<1> DEFINE Moves ==
        /\ Opening => Opening' /\ ~Resume
        /\ Arming => Arming' \/ Waiting'
        /\ Waiting => Waiting' \/ Opening'
        /\ Waiting /\ TimerFires => Opening'
<1> USE DEF Unconnected, Opening, Arming, Waiting, Idle, connVars
<1>0. timers \in Nat
  BY SdkDeviceConstants DEF DeviceInv, TypeOK
<1>1. CASE Start \/ StartAgain \/ Stop
  BY <1>1 DEF Start, StartAgain, Stop
<1>2. CASE TimerFires
  BY <1>2 DEF TimerFires, Resume, CreateSocket, ArmTimer, StartHeartbeat,
              CloseMismatched, DeviceInv, FieldsAgree
<1>3. CASE Resume
  <2>1. CASE \E s \in Sockets : CreateSocket(s)
    BY <2>1, SdkDeviceConstants DEF CreateSocket
  <2>2. CASE ArmTimer
    BY <1>0, <2>2 DEF ArmTimer, HandlerEnds, CreateSocket, StartHeartbeat,
                      CloseMismatched, TimerFires
  <2>3. CASE StartHeartbeat \/ CloseMismatched
    BY <2>3 DEF StartHeartbeat, CloseMismatched, HandlerEnds, TimerFires
  <2> QED
    BY <1>3, <2>1, <2>2, <2>3 DEF Resume
<1>4. CASE UNCHANGED <<shouldRun, socket, rest, again, timers>> /\ ~Resume /\ ~TimerFires
  BY <1>4
<1>5. ASSUME NEW s \in Sockets, NEW code \in {"unauthorized", "other"}, Closed(s, code)
      PROVE  Moves
  BY <1>5, SdkDeviceConstants
  DEF Closed, Current, Resume, CreateSocket, ArmTimer, StartHeartbeat,
      CloseMismatched, TimerFires, DeviceInv, FieldsAgree
<1>6. ASSUME NEW s \in Sockets, Welcome(s) \/ WrongWelcome(s) PROVE Moves
  BY <1>6, SdkDeviceConstants DEF Welcome, WrongWelcome
<1> QED
  BY <1>1, <1>2, <1>3, <1>4, <1>5, <1>6
  DEF Next, Opens, Recycle, ReceiveJob, HandlerReturns,
      HandlerTimesOut, vars

\* While the device waits for its timer, a socket only comes to its end and
\* makes room.
LEMMA SocketsEnd ==
    ASSUME DeviceInv, [Next]_vars, Waiting, Waiting', NEW s \in Sockets
    PROVE  /\ sock[s] = "unused" => sock'[s] = "unused"
           /\ sock[s] = "closed" => sock'[s] \in {"closed", "unused"}
           /\ sock[s] \in Live => sock'[s] \in Live \cup {"closed"}
           /\ sock[s] = "closed" /\ <<Recycle(s)>>_vars => sock'[s] = "unused"
           /\ sock[s] \in Live /\ <<FormerCloses(s)>>_vars => sock'[s] = "closed"
<1> USE DEF Waiting, Unconnected, Live, connVars, DeviceInv, TypeOK
<1> DEFINE Ends ==
        /\ sock[s] = "unused" => sock'[s] = "unused"
        /\ sock[s] = "closed" => sock'[s] \in {"closed", "unused"}
        /\ sock[s] \in Live => sock'[s] \in Live \cup {"closed"}
<1>1. ASSUME NEW z \in Sockets, \/ Opens(z) \/ Welcome(z) \/ WrongWelcome(z)
                                \/ Recycle(z) \/ CreateSocket(z)
                                \/ Closed(z, "unauthorized") \/ Closed(z, "other")
      PROVE  Ends
  BY <1>1 DEF Opens, Welcome, WrongWelcome, Recycle, CreateSocket, Closed
<1>2. ASSUME UNCHANGED sock PROVE Ends
  BY <1>2
<1>6. ASSUME CloseMismatched PROVE Ends
  BY <1>6, SdkDeviceConstants DEF CloseMismatched, CloseCurrent
<1>3. Ends
  BY <1>1, <1>2, <1>6
  DEF Next, Start, StartAgain, Stop, Resume, ArmTimer, StartHeartbeat, TimerFires,
      ReceiveJob, HandlerReturns, HandlerTimesOut, vars
<1>4. Recycle(s) => sock'[s] = "unused"
  BY DEF Recycle
<1>5. FormerCloses(s) => sock'[s] = "closed"
  BY DEF FormerCloses, Closed
<1> QED
  BY <1>3, <1>4, <1>5

\* A device that has lost its connection makes another attempt or is stopped: the
\* timer it waits for gets a socket to open, and the handler it interrupts goes on.
THEOREM TriesAgainHolds == FairSpec /\ []DueCanRun => TriesAgain
<1> DEFINE I == DeviceInv /\ RoomKept
<1>0. PICK s \in Sockets : TRUE
  BY SdkDeviceConstants
<1> DEFINE Unused == sock[s] = "unused"
           Ended == sock[s] = "closed"
           Alive == sock[s] \in Live
<1>1. I /\ Unconnected => Opening \/ Arming \/ Waiting
  BY UnconnectedCases
<1>2. I /\ Unconnected' /\ [Next]_vars
        => /\ Opening => Opening' /\ ~<<Resume>>_vars
           /\ Arming => Arming' \/ Waiting'
           /\ Waiting => Waiting' \/ Opening'
           /\ Waiting /\ <<TimerFires>>_vars => Opening'
  BY UnconnectedMoves
<1>3. I /\ Waiting /\ Waiting' /\ [Next]_vars
        => /\ Unused => Unused'
           /\ Ended => Ended' \/ Unused'
           /\ Alive => Alive' \/ Ended'
           /\ Ended /\ <<Recycle(s)>>_vars => Unused'
           /\ Alive /\ <<FormerCloses(s)>>_vars => Ended'
  BY SocketsEnd
<1>4. I => Unused \/ Ended \/ Alive
  BY DEF DeviceInv, TypeOK
<1>5. I /\ DueCanRun
        => /\ Opening => ENABLED <<Resume>>_vars
           /\ Waiting /\ Idle /\ Unused => ENABLED <<TimerFires>>_vars
           /\ Waiting /\ Ended => ENABLED <<Recycle(s)>>_vars
           /\ Waiting /\ Alive /\ Idle => ENABLED <<FormerCloses(s)>>_vars
  BY SdkDeviceConstants
  DEF RoomKept, DueCanRun, Opening, Waiting, Unconnected, Idle, Room, DeviceInv,
      FieldsAgree
<1>6. FairSpec => SocketFair(s)
  BY DEF FairSpec, Fairness
<1>7. /\ Opening \/ Arming \/ Waiting => Unconnected
      /\ Opening => ~Waiting
      /\ Arming => ~Idle
  BY DEF Opening, Arming, Waiting, Unconnected, Idle
<1>8. Unconnected <=> ~(socket # None \/ ~shouldRun)
  BY DEF Unconnected
<1> HIDE DEF I, Unused, Ended, Alive
<1>9. FairSpec => []I
  BY RoomKeptHolds, PTL DEF FairSpec, I
<1>10. FairSpec /\ []DueCanRun => (Unconnected ~> ~Unconnected)
  BY <1>1, <1>2, <1>3, <1>4, <1>5, <1>6, <1>7, <1>9, IdleAgain, PTL
  DEF FairSpec, Spec, Fairness, LoopFair, SocketFair
<1> QED
  BY <1>8, <1>10, PTL DEF TriesAgain, Unconnected
=============================================================================
