------------------------ MODULE RpcRelayOrdered_proofs ------------------------
(* What RpcRelay guarantees while nothing fails: the completed slot and the *)
(* "late" acknowledgement, for any requests, devices, instances and frames. *)
EXTENDS RpcRelay_proofs

\* A frame that has been received keeps its request, its sender and its place.
LEMMA FrameKept ==
    ASSUME IInv, [Next]_vars, NEW n \in Results, task[n].step # "free"
    PROVE  /\ task'[n].request = task[n].request
           /\ task'[n].from = task[n].from
           /\ task'[n].at = task[n].at
           /\ task'[n].step # "free"
<1> DEFINE Kept == /\ task'[n].request = task[n].request
                   /\ task'[n].from = task[n].from
                   /\ task'[n].at = task[n].at
                   /\ task'[n].step # "free"
<1> USE DEF invokeVars, waiterVars, redisVars, busVars, linkVars, frameVars
<1>0. TypeOK /\ \A m \in Results : task[m] \in Task
  BY DEF IInv, TypeOK
<1>1. ASSUME NEW m \in Results, NEW r \in Requests, NEW c \in Clients,
             NEW i \in Instances, ReceiveResult(m, r, c, i)
      PROVE  Kept
  BY <1>0, <1>1 DEF ReceiveResult, TypeOK
<1>2. ASSUME NEW m \in Results, ResultStep(m) PROVE Kept
  <2>1. ASSUME NEW a, task' = Finished(m, a) PROVE Kept
    BY <1>0, <2>1 DEF Finished, TypeOK, Task
  <2>2. ASSUME NEW s, s # "free", task' = [task EXCEPT ![m].step = s]
        PROVE  Kept
    BY <1>0, <2>2 DEF TypeOK, Task
  <2>3. CASE LookUpWaiter(m)
    BY <1>0, <2>1, <2>3 DEF LookUpWaiter, TypeOK, Task
  <2>4. CASE ClaimCompleted(m)
    BY <2>1, <2>2, <2>4 DEF ClaimCompleted
  <2>5. CASE ResolveLocally(m)
    BY <2>1, <2>2, <2>5 DEF ResolveLocally
  <2>6. CASE ReleaseCompleted(m) \/ PublishResult(m) \/ ResultFails(m)
    BY <2>1, <2>6 DEF ReleaseCompleted, PublishResult, ResultFails
  <2>7. CASE ResultSentAgain(m)
    BY <2>7 DEF ResultSentAgain
  <2> QED
    BY <1>2, <2>3, <2>4, <2>5, <2>6, <2>7 DEF ResultStep
<1>3. ASSUME NEW i \in Instances, Crash(i) PROVE Kept
  BY <1>0, <1>3 DEF Crash, Task
<1>4. CASE UNCHANGED task
  BY <1>4
<1>5. Kept
  BY <1>1, <1>2, <1>3, <1>4
  DEF Next, CallStep, InstanceStep, vars, Invoke, DeadlinePasses,
      WaiterTimesOut, MarkWaiting, FindHolder, NoHolder, GiveUp, CancelWaiter,
      DeliverLocalJob, RefuseLocalJob, ForwardJob, DispatchFails, AwaitEnds,
      WaiterKeyExpires, CompletedExpires, Register, SocketCloses, ReceiveJob,
      ReceiveRoutedResult, ReleaseRouted, LoseRelease, SessionEnds, LoseMessage,
      CommandSentAgain
<1> QED
  BY <1>5 DEF Kept

\* A call that has begun keeps its home and its target, and a waiter that has
\* left the map does not come back.
LEMMA CallKept ==
    ASSUME IInv, [Next]_vars, NEW r \in Requests, phase[r] # "idle"
    PROVE  /\ home'[r] = home[r]
           /\ target'[r] = target[r]
           /\ r \in waiters' => r \in waiters
<1> USE DEF invokeVars, waiterVars, redisVars, busVars, linkVars, frameVars
<1>0. TypeOK
  BY DEF IInv
<1>1. ASSUME NEW q \in Requests, NEW i \in Instances, NEW d \in Devices,
             Invoke(q, i, d)
      PROVE  /\ home'[r] = home[r]
             /\ target'[r] = target[r]
             /\ r \in waiters' => r \in waiters
  BY <1>0, <1>1 DEF TypeOK, Invoke
<1>2. ASSUME UNCHANGED <<home, target>>, waiters' \subseteq waiters
      PROVE  /\ home'[r] = home[r]
             /\ target'[r] = target[r]
             /\ r \in waiters' => r \in waiters
  BY <1>2
<1>3. ASSUME NEW q \in Requests, CallStep(q)
      PROVE  UNCHANGED <<home, target>> /\ waiters' \subseteq waiters
  BY <1>3
  DEF CallStep, DeadlinePasses, WaiterTimesOut, MarkWaiting, FindHolder,
      NoHolder, GiveUp, CancelWaiter, DeliverLocalJob, RefuseLocalJob,
      ForwardJob, DispatchFails, CommandSentAgain, AwaitEnds,
      WaiterKeyExpires, CompletedExpires
<1>4. ASSUME NEW m \in Results, ResultStep(m)
      PROVE  UNCHANGED <<home, target>> /\ waiters' \subseteq waiters
  BY <1>4
  DEF ResultStep, LookUpWaiter, ClaimCompleted, ResolveLocally, ResolveWaiter,
      ReleaseCompleted, PublishResult, ResultFails, ResultSentAgain
<1>5. ASSUME NEW i \in Instances, InstanceStep(i)
      PROVE  UNCHANGED <<home, target>> /\ waiters' \subseteq waiters
  BY <1>5
  DEF InstanceStep, Register, SocketCloses, ReceiveJob, ReceiveRoutedResult,
      ResolveWaiter, ReleaseRouted, LoseRelease, Crash
<1>6. CASE \/ \E m \in Results, q \in Requests, c \in Clients, i \in Instances :
                 ReceiveResult(m, q, c, i)
           \/ \E d \in Devices : SessionEnds(d)
           \/ LoseMessage
           \/ UNCHANGED vars
  BY <1>2, <1>6 DEF ReceiveResult, SessionEnds, LoseMessage, vars
<1>7. \/ \E q \in Requests, i \in Instances, d \in Devices : Invoke(q, i, d)
      \/ \E q \in Requests : CallStep(q)
      \/ \E m \in Results : ResultStep(m)
      \/ \E i \in Instances : InstanceStep(i)
      \/ \E m \in Results, q \in Requests, c \in Clients, i \in Instances :
             ReceiveResult(m, q, c, i)
      \/ \E d \in Devices : SessionEnds(d)
      \/ LoseMessage
      \/ UNCHANGED vars
  BY DEF Next
<1> QED
  BY <1>1, <1>2, <1>3, <1>4, <1>5, <1>6, <1>7

\* The call of a received frame has begun: its job was delivered.
LEMMA FrameCall ==
    ASSUME IInv, NEW m \in Results, task[m].step # "free"
    PROVE  /\ task[m].request \in Requests
           /\ task[m].request \in delivered
           /\ phase[task[m].request] # "idle"
BY FrameFacts DEF IInv, JobsOfOpenCalls

\* A frame that is refused stays refused.
LEMMA RefusedKept ==
    ASSUME IInv, [Next]_vars, NEW m \in Results, task[m].step # "free",
           Refused(m)
    PROVE  Refused(m)'
BY FrameKept, FrameCall, CallKept DEF Refused

\* Where resolveLocalWaiter turns a frame down on the calling instance, it
\* turns it down for good.
LEMMA NotAcceptedAtHome ==
    ASSUME NEW m \in Results, ~Accepts(home[task[m].request], m)
    PROVE  Refused(m)
BY DEF Accepts, Refused

-----------------------------------------------------------------------------
LEMMA KeysNext ==
    ASSUME ~Faults, IInv, KeysNameHome, [Next]_vars PROVE KeysNameHome'
<1> USE DEF invokeVars, waiterVars, redisVars, busVars, linkVars, frameVars
<1>0. TypeOK
  BY DEF IInv
<1>1. ASSUME NEW r \in Requests, NEW i \in Instances, NEW d \in Devices,
             Invoke(r, i, d)
      PROVE  KeysNameHome'
  BY <1>0, <1>1 DEF KeysNameHome, TypeOK, Invoke
<1>2. ASSUME NEW r \in Requests, MarkWaiting(r) PROVE KeysNameHome'
  BY <1>0, <1>2 DEF KeysNameHome, TypeOK, MarkWaiting
<1>3. ASSUME NEW r \in Requests, WaiterKeyExpires(r) PROVE KeysNameHome'
  BY <1>0, <1>3 DEF KeysNameHome, TypeOK, WaiterKeyExpires
<1>4. ASSUME NEW m \in Results, ClaimCompleted(m) PROVE KeysNameHome'
  BY <1>0, <1>4, FrameFacts DEF KeysNameHome, TypeOK, ClaimCompleted
<1>5. ASSUME UNCHANGED <<up, waiterKey, home>>, completed' \subseteq completed,
             delivered \subseteq delivered',
             \A r \in Requests : phase'[r] = "idle" => phase[r] = "idle"
      PROVE  KeysNameHome'
  BY <1>5 DEF KeysNameHome
<1>6. ASSUME NEW r \in Requests, CallStep(r) PROVE KeysNameHome'
  BY <1>0, <1>2, <1>3, <1>5, <1>6
  DEF CallStep, TypeOK, DeadlinePasses, WaiterTimesOut, FindHolder, NoHolder,
      GiveUp, DeliverLocalJob, RefuseLocalJob, ForwardJob, DispatchFails,
      CommandSentAgain, AwaitEnds, CompletedExpires
<1>7. ASSUME NEW m \in Results, ResultStep(m) PROVE KeysNameHome'
  BY <1>4, <1>5, <1>7
  DEF ResultStep, LookUpWaiter, ResolveLocally, ReleaseCompleted,
      PublishResult, ResultFails, ResultSentAgain
<1>8. ASSUME NEW i \in Instances, InstanceStep(i) PROVE KeysNameHome'
  BY <1>5, <1>8
  DEF InstanceStep, Register, SocketCloses, ReceiveJob, ReceiveRoutedResult,
      ReleaseRouted, LoseRelease, Crash
<1>9. CASE \/ \E m \in Results, r \in Requests, c \in Clients, i \in Instances :
                 ReceiveResult(m, r, c, i)
           \/ \E d \in Devices : SessionEnds(d)
           \/ LoseMessage
           \/ UNCHANGED vars
  BY <1>5, <1>9 DEF ReceiveResult, SessionEnds, LoseMessage, vars
<1> QED
  BY <1>1, <1>6, <1>7, <1>8, <1>9 DEF Next

\* A frame nobody works on stays where it is and goes where it went.
LEMMA FrameHomeKept ==
    ASSUME IInv, [Next]_vars, NEW n \in Results, FrameGoesHome(n),
           task'[n] = task[n]
    PROVE  FrameGoesHome(n)'
<1>1. CASE task[n].step = "free"
  BY <1>1 DEF FrameGoesHome
<1>2. CASE task[n].step # "free"
  <2>1. home'[task[n].request] = home[task[n].request]
    BY <1>2, FrameCall, CallKept
  <2>2. task[n].step = "release" => Refused(n)'
    BY <1>2, RefusedKept DEF FrameGoesHome
  <2> QED
    BY <2>1, <2>2 DEF FrameGoesHome
<1> QED
  BY <1>1, <1>2

\* So do the messages and handlers a step leaves alone.
LEMMA BusHomeKept ==
    ASSUME IInv, [Next]_vars, FramesGoHome
    PROVE  /\ \A p \in resultBus : p[1] = home'[task'[p[2]].request]
           /\ \A p \in releasing : Refused(p[2])'
<1>1. \A p \in resultBus \cup releasing :
          p[2] \in Results /\ task[p[2]].step # "free"
  BY DEF IInv, TypeOK, FramesWellFormed
<1> QED
  BY <1>1, FrameKept, FrameCall, CallKept, RefusedKept DEF FramesGoHome

LEMMA FramesGoNext ==
    ASSUME ~Faults, IInv, KeysNameHome, FramesGoHome, [Next]_vars
    PROVE  FramesGoHome'
<1> USE DEF invokeVars, waiterVars, redisVars, busVars, linkVars, frameVars
<1>0. TypeOK /\ \A m \in Results : task[m] \in Task
  BY DEF IInv, TypeOK
<1>1. ASSUME NEW m \in Results, \A n \in Results \ {m} : task'[n] = task[n],
             FrameGoesHome(m)',
             \/ resultBus' \subseteq resultBus
             \/ resultBus' \subseteq resultBus \cup {<<task[m].waiterAt, m>>}
                /\ task[m].step = "publish",
             releasing' \subseteq releasing
      PROVE  FramesGoHome'
  <2>1. \A n \in Results : FrameGoesHome(n)'
    BY <1>1, FrameHomeKept DEF FramesGoHome
  <2>2. task[m].step = "publish" =>
            task[m].waiterAt = home'[task'[m].request]
    BY FrameKept, FrameCall, CallKept DEF FramesGoHome, FrameGoesHome
  <2>3. \A p \in resultBus' : p[1] = home'[task'[p[2]].request]
    BY <1>1, <2>2, BusHomeKept
  <2>4. \A p \in releasing' : Refused(p[2])'
    BY <1>1, BusHomeKept
  <2> QED
    BY <2>1, <2>3, <2>4 DEF FramesGoHome
<1>2. ASSUME NEW m \in Results, NEW r \in Requests, NEW c \in Clients,
             NEW i \in Instances, ReceiveResult(m, r, c, i)
      PROVE  FramesGoHome'
  <2>1. FrameGoesHome(m)'
    BY <1>0, <1>2 DEF ReceiveResult, FrameGoesHome, TypeOK
  <2> QED
    BY <1>0, <1>1, <1>2, <2>1 DEF ReceiveResult, TypeOK
<1>3. ASSUME NEW m \in Results, ResultStep(m) PROVE FramesGoHome'
  <2>1. ASSUME NEW a, task' = Finished(m, a) PROVE FrameGoesHome(m)'
    BY <1>0, <2>1 DEF Finished, FrameGoesHome, TypeOK, Task
  <2>2. CASE LookUpWaiter(m)
    <3>1. CASE waiterKey[task[m].request] = None
      <4>1. FrameGoesHome(m)'
        BY <2>1, <2>2, <3>1 DEF LookUpWaiter
      <4> QED
        BY <1>0, <1>1, <2>2, <3>1, <4>1 DEF LookUpWaiter, Finished, TypeOK
    <3>2. CASE waiterKey[task[m].request] # None
      <4>1. waiterKey[task[m].request] = home[task[m].request]
        BY <2>2, <3>2, FrameFacts DEF LookUpWaiter, KeysNameHome
      <4>2. FrameGoesHome(m)'
        BY <1>0, <2>2, <3>2, <4>1 DEF LookUpWaiter, FrameGoesHome, TypeOK, Task
      <4> QED
        BY <1>0, <1>1, <2>2, <3>2, <4>2 DEF LookUpWaiter, TypeOK
    <3> QED
      BY <3>1, <3>2
  <2>3. CASE ClaimCompleted(m)
    <3>1. FrameGoesHome(m)'
      <4>1. CASE task' = Finished(m, "late")
        BY <2>1, <4>1
      <4>2. CASE task' = [task EXCEPT ![m].step =
                              IF task[m].waiterAt = task[m].at THEN "resolve"
                              ELSE "publish"]
        <5>1. task[m].waiterAt = home[task[m].request]
          BY <2>3 DEF ClaimCompleted, FramesGoHome, FrameGoesHome
        <5> QED
          BY <1>0, <2>3, <4>2, <5>1
          DEF ClaimCompleted, FrameGoesHome, TypeOK, Task
      <4> QED
        BY <2>3, <4>1, <4>2 DEF ClaimCompleted
    <3> QED
      BY <1>0, <1>1, <2>3, <3>1 DEF ClaimCompleted, Finished, TypeOK
  <2>4. CASE ResolveLocally(m)
    <3>1. FrameGoesHome(m)'
      <4>1. CASE task' = Finished(m, "ok")
        BY <2>1, <4>1
      <4>2. CASE /\ ~Accepts(task[m].at, m)
                 /\ task' = [task EXCEPT ![m].step = "release"]
                 /\ UNCHANGED waiterVars
        <5>1. Refused(m)
          BY <2>4, <4>2, NotAcceptedAtHome
          DEF ResolveLocally, FramesGoHome, FrameGoesHome
        <5>2. Refused(m)'
          BY <2>4, <5>1, RefusedKept DEF ResolveLocally
        <5> QED
          BY <1>0, <4>2, <5>2 DEF FrameGoesHome, TypeOK, Task
      <4> QED
        BY <2>4, <4>1, <4>2 DEF ResolveLocally
    <3> QED
      BY <1>0, <1>1, <2>4, <3>1 DEF ResolveLocally, Finished, TypeOK
  <2>5. CASE ReleaseCompleted(m)
    <3>1. FrameGoesHome(m)'
      BY <2>1, <2>5 DEF ReleaseCompleted
    <3> QED
      BY <1>0, <1>1, <2>5, <3>1 DEF ReleaseCompleted, Finished, TypeOK
  <2>6. CASE PublishResult(m)
    <3>1. FrameGoesHome(m)'
      BY <2>1, <2>6 DEF PublishResult
    <3> QED
      BY <1>0, <1>1, <2>6, <3>1
      DEF PublishResult, PublishedResult, Finished, TypeOK
  <2> QED
    BY <1>3, <2>2, <2>3, <2>4, <2>5, <2>6 DEF ResultStep, ResultFails,
        ResultSentAgain
<1>4. ASSUME NEW i \in Instances, NEW m \in Results, ReceiveRoutedResult(i, m)
      PROVE  FramesGoHome'
  <2>1. \A n \in Results : FrameGoesHome(n)'
    BY <1>4, FrameHomeKept DEF ReceiveRoutedResult, FramesGoHome
  <2>2. \A p \in resultBus' : p[1] = home'[task'[p[2]].request]
    BY <1>4, BusHomeKept DEF ReceiveRoutedResult
  <2>3. ~Accepts(i, m) => Refused(m)'
    <3>1. i = home[task[m].request] /\ task[m].step # "free"
      BY <1>4 DEF ReceiveRoutedResult, FramesGoHome, IInv, FramesWellFormed
    <3> QED
      BY <3>1, NotAcceptedAtHome, RefusedKept
  <2>4. \A p \in releasing' : Refused(p[2])'
    BY <1>4, <2>3, BusHomeKept DEF ReceiveRoutedResult
  <2> QED
    BY <2>1, <2>2, <2>4 DEF FramesGoHome
<1>5. ASSUME task' = task, resultBus' \subseteq resultBus,
             releasing' \subseteq releasing
      PROVE  FramesGoHome'
  BY <1>5, FrameHomeKept, BusHomeKept DEF FramesGoHome
<1> QED
  BY <1>2, <1>3, <1>4, <1>5
  DEF Next, CallStep, InstanceStep, vars, Invoke, DeadlinePasses,
      WaiterTimesOut, MarkWaiting, FindHolder, NoHolder, GiveUp, CancelWaiter,
      DeliverLocalJob, RefuseLocalJob, ForwardJob, DispatchFails, AwaitEnds,
      WaiterKeyExpires, CompletedExpires, Register, SocketCloses, ReceiveJob,
      ReleaseRouted, LoseRelease, Crash, SessionEnds, LoseMessage,
      CommandSentAgain

-----------------------------------------------------------------------------
\* The frames that hold the completed slot are received ones.
LEMMA CarrierReceived ==
    ASSUME IInv, NEW m \in Results,
           \/ task[m].step \in {"resolve", "release", "publish"}
           \/ \E i \in Instances : <<i, m>> \in resultBus \/ <<i, m>> \in releasing
    PROVE  task[m].step \notin {"free", "lookup", "claim"}
<1>1. ASSUME NEW i \in Instances,
             <<i, m>> \in resultBus \/ <<i, m>> \in releasing
      PROVE  task[m].step \in {"publish", "done"}
  <2>1. <<i, m>> \in resultBus \cup releasing /\ <<i, m>>[2] = m
    BY <1>1
  <2> QED
    BY <2>1 DEF IInv, FramesWellFormed
<1> QED
  BY <1>1

LEMMA CarriedNext ==
    ASSUME ~Faults, IInv, KeysNameHome, FramesGoHome, CompletedIsCarried,
           [Next]_vars
    PROVE  CompletedIsCarried'
<1> USE DEF invokeVars, waiterVars, redisVars, busVars, linkVars, frameVars
<1>0. TypeOK /\ \A m \in Results : task[m] \in Task
  BY DEF IInv, TypeOK
<1>1. SUFFICES ASSUME NEW r \in waiters', r \in completed' PROVE Carried(r)'
  BY DEF CompletedIsCarried
<1>2. ASSUME r \in waiters, r \in completed, task' = task,
             resultBus' = resultBus, releasing' = releasing
      PROVE  Carried(r)'
  BY <1>2 DEF CompletedIsCarried, Carried
<1>3. ASSUME NEW q \in Requests, NEW i \in Instances, NEW d \in Devices,
             Invoke(q, i, d)
      PROVE  Carried(r)'
  <2>1. q \notin completed
    BY <1>3 DEF Invoke, KeysNameHome, IInv, JobsOfOpenCalls
  <2> QED
    BY <1>1, <1>2, <1>3, <2>1 DEF Invoke
<1>4. ASSUME NEW m \in Results, r \in waiters, r \in completed,
             task[m].request # r \/ task[m].step \in {"free", "lookup", "claim"},
             \A n \in Results \ {m} : task'[n] = task[n],
             \A i \in Instances, n \in Results \ {m} :
                 /\ <<i, n>> \in resultBus => <<i, n>> \in resultBus'
                 /\ <<i, n>> \in releasing => <<i, n>> \in releasing'
      PROVE  Carried(r)'
  <2>1. PICK n \in Results :
            /\ task[n].request = r
            /\ \/ task[n].step \in {"resolve", "release", "publish"}
               \/ \E i \in Instances :
                      <<i, n>> \in resultBus \/ <<i, n>> \in releasing
    BY <1>4 DEF CompletedIsCarried, Carried
  <2>2. n # m
    BY <1>4, <2>1, CarrierReceived
  <2> QED
    BY <1>4, <2>1, <2>2 DEF Carried
<1>5. ASSUME NEW m \in Results, NEW q \in Requests, NEW c \in Clients,
             NEW i \in Instances, ReceiveResult(m, q, c, i)
      PROVE  Carried(r)'
  BY <1>0, <1>1, <1>4, <1>5 DEF ReceiveResult, TypeOK
<1>6. ASSUME NEW m \in Results, ResultStep(m) PROVE Carried(r)'
  <2>0. \A n \in Results \ {m} : task'[n] = task[n]
    BY <1>0, <1>6
    DEF ResultStep, LookUpWaiter, ClaimCompleted, ResolveLocally,
        ReleaseCompleted, PublishResult, ResultFails, ResultSentAgain,
        Finished, TypeOK
  <2>1. CASE LookUpWaiter(m)
    BY <1>1, <1>4, <2>0, <2>1 DEF LookUpWaiter
  <2>2. CASE ClaimCompleted(m)
    <3>1. CASE r \in completed
      BY <1>1, <1>4, <2>0, <2>2, <3>1 DEF ClaimCompleted
    <3>2. CASE r \notin completed
      <4>1. r = task[m].request
        BY <1>1, <2>2, <3>2 DEF ClaimCompleted
      <4>2. task'[m].request = r /\ task'[m].step \in {"resolve", "publish"}
        BY <1>0, <2>2, <3>2, <4>1 DEF ClaimCompleted, TypeOK, Task
      <4> QED
        BY <4>2 DEF Carried
    <3> QED
      BY <3>1, <3>2
  <2>3. CASE ResolveLocally(m)
    <3>1. CASE Accepts(task[m].at, m)
      BY <1>1, <1>4, <2>0, <2>3, <3>1 DEF ResolveLocally, ResolveWaiter
    <3>2. CASE ~Accepts(task[m].at, m)
      <4>1. CASE task[m].request = r
        <5>1. task'[m].request = r /\ task'[m].step = "release"
          BY <1>0, <2>3, <3>2, <4>1 DEF ResolveLocally, TypeOK, Task
        <5> QED
          BY <5>1 DEF Carried
      <4>2. CASE task[m].request # r
        BY <1>1, <1>4, <2>0, <2>3, <3>2, <4>2 DEF ResolveLocally
      <4> QED
        BY <4>1, <4>2
    <3> QED
      BY <3>1, <3>2
  <2>4. CASE ReleaseCompleted(m)
    BY <1>1, <1>4, <2>0, <2>4 DEF ReleaseCompleted
  <2>5. CASE PublishResult(m)
    <3>1. CASE task[m].request = r
      <4>1. task[m].waiterAt \in Instances
        BY <2>5 DEF PublishResult, IInv, FramesWellFormed
      <4>2. <<task[m].waiterAt, m>> \in resultBus'
        BY <2>5, <4>1 DEF PublishResult, PublishedResult, KeysNameHome
      <4>3. task'[m].request = r
        BY <2>5, <3>1, FrameKept DEF PublishResult
      <4> QED
        BY <4>1, <4>2, <4>3 DEF Carried
    <3>2. CASE task[m].request # r
      BY <1>1, <1>4, <2>0, <2>5, <3>2 DEF PublishResult, PublishedResult
    <3> QED
      BY <3>1, <3>2
  <2> QED
    BY <1>6, <2>1, <2>2, <2>3, <2>4, <2>5 DEF ResultStep, ResultFails,
        ResultSentAgain
<1>7. ASSUME NEW i \in Instances, NEW m \in Results, ReceiveRoutedResult(i, m)
      PROVE  Carried(r)'
  <2>1. CASE task[m].request # r \/ Accepts(i, m)
    <3>1. r \in waiters /\ task[m].request # r
      BY <1>1, <1>7, <2>1 DEF ReceiveRoutedResult, ResolveWaiter
    <3> QED
      BY <1>1, <1>4, <1>7, <3>1 DEF ReceiveRoutedResult
  <2>2. CASE task[m].request = r /\ ~Accepts(i, m)
    BY <1>7, <2>2 DEF ReceiveRoutedResult, Carried
  <2> QED
    BY <2>1, <2>2
<1>8. ASSUME NEW i \in Instances, NEW m \in Results, ReleaseRouted(i, m)
      PROVE  Carried(r)'
  <2>1. r \in waiters /\ r \in completed /\ task[m].request # r
    BY <1>1, <1>8 DEF ReleaseRouted
  <2> QED
    BY <1>4, <1>8, <2>1 DEF ReleaseRouted
<1> QED
  BY <1>1, <1>2, <1>3, <1>5, <1>6, <1>7, <1>8
  DEF Next, CallStep, InstanceStep, vars, DeadlinePasses,
      WaiterTimesOut, MarkWaiting, FindHolder, NoHolder, GiveUp, CancelWaiter,
      DeliverLocalJob, RefuseLocalJob, ForwardJob, DispatchFails, AwaitEnds,
      WaiterKeyExpires, CompletedExpires, Register, SocketCloses, ReceiveJob,
      LoseRelease, Crash, SessionEnds, LoseMessage,
      CommandSentAgain

-----------------------------------------------------------------------------
\* The frame that brings its addressee's result reaches the caller: until the
\* waiter has left the map, it stays on its way.
LEMMA BringingKept ==
    ASSUME ~Faults, IInv, KeysNameHome, FramesGoHome, [Next]_vars,
           NEW n \in Results, NEW r \in waiters', Bringing(n, r),
           task[n].from = target[r]
    PROVE  Bringing(n, r)'
<1> USE DEF invokeVars, waiterVars, redisVars, busVars, linkVars, frameVars
<1>0. TypeOK /\ \A m \in Results : task[m] \in Task
  BY DEF IInv, TypeOK
<1>1. task[n].step # "free" /\ task[n].request = r
  BY CarrierReceived DEF Bringing
<1>2. task'[n].request = r
  BY <1>1, FrameKept
<1>3. r \in waiters /\ ~Refused(n)
  BY <1>1, FrameCall, CallKept DEF Refused
<1>4. ASSUME task'[n] = task[n], UNCHANGED resultBus PROVE Bringing(n, r)'
  BY <1>4 DEF Bringing
<1>5. ASSUME NEW m \in Results, m # n, task'[n] = task[n],
             \A i \in Instances : <<i, n>> \in resultBus => <<i, n>> \in resultBus'
      PROVE  Bringing(n, r)'
  BY <1>5 DEF Bringing
<1>6. ASSUME NEW m \in Results, NEW q \in Requests, NEW c \in Clients,
             NEW i \in Instances, ReceiveResult(m, q, c, i)
      PROVE  Bringing(n, r)'
  BY <1>0, <1>1, <1>4, <1>6 DEF ReceiveResult, TypeOK
<1>7. ASSUME NEW m \in Results, ResultStep(m) PROVE Bringing(n, r)'
  <2>1. CASE m # n
    <3>1. /\ task'[n] = task[n]
          /\ \A i \in Instances :
                 <<i, n>> \in resultBus => <<i, n>> \in resultBus'
      BY <1>0, <1>7, <2>1
      DEF ResultStep, LookUpWaiter, ClaimCompleted, ResolveLocally,
          ReleaseCompleted, PublishResult, PublishedResult, ResultFails,
          ResultSentAgain, Finished, TypeOK
    <3> QED
      BY <1>5, <2>1, <3>1
  <2>2. CASE m = n
    <3>1. task[n].step \notin {"lookup", "claim"}
      BY CarrierReceived DEF Bringing
    <3>2. CASE ResolveLocally(n)
      <4>1. task[n].at = home[r]
        BY <1>1, <3>2 DEF ResolveLocally, FramesGoHome, FrameGoesHome
      <4>2. Accepts(task[n].at, n)
        BY <1>1, <1>3, <4>1, NotAcceptedAtHome
      <4>3. r \notin waiters'
        BY <1>1, <3>2, <4>2 DEF ResolveLocally, ResolveWaiter
      <4> QED
        BY <4>3
    <3>3. CASE ReleaseCompleted(n)
      BY <1>3, <3>3 DEF ReleaseCompleted, FramesGoHome, FrameGoesHome
    <3>4. CASE PublishResult(n)
      <4>1. task[n].waiterAt \in Instances
        BY <3>4 DEF PublishResult, IInv, FramesWellFormed
      <4>2. <<task[n].waiterAt, n>> \in resultBus'
        BY <3>4, <4>1 DEF PublishResult, PublishedResult, KeysNameHome
      <4> QED
        BY <1>2, <4>1, <4>2 DEF Bringing
    <3> QED
      BY <1>7, <2>2, <3>1, <3>2, <3>3, <3>4
      DEF ResultStep, LookUpWaiter, ClaimCompleted, ResultFails,
          ResultSentAgain
  <2> QED
    BY <2>1, <2>2
<1>8. ASSUME NEW i \in Instances, NEW m \in Results, ReceiveRoutedResult(i, m)
      PROVE  Bringing(n, r)'
  <2>1. CASE m # n
    BY <1>5, <1>8, <2>1 DEF ReceiveRoutedResult
  <2>2. CASE m = n
    <3>1. i = home[r]
      BY <1>1, <1>8, <2>2 DEF ReceiveRoutedResult, FramesGoHome
    <3>2. Accepts(i, n)
      BY <1>1, <1>3, <3>1, NotAcceptedAtHome
    <3>3. r \notin waiters'
      BY <1>1, <1>8, <2>2, <3>2 DEF ReceiveRoutedResult, ResolveWaiter
    <3> QED
      BY <3>3
  <2> QED
    BY <2>1, <2>2
<1> QED
  BY <1>4, <1>6, <1>7, <1>8
  DEF Next, CallStep, InstanceStep, vars, Invoke, DeadlinePasses,
      WaiterTimesOut, MarkWaiting, FindHolder, NoHolder, GiveUp, CancelWaiter,
      DeliverLocalJob, RefuseLocalJob, ForwardJob, PublishedJob, DispatchFails,
      AwaitEnds, WaiterKeyExpires, CompletedExpires, Register, SocketCloses,
      ReceiveJob, ReleaseRouted, LoseRelease, Crash, SessionEnds, LoseMessage,
      CommandSentAgain

\* "late" is said by the frame that finds no routing key or the slot taken.
LEMMA LateSaid ==
    ASSUME ~Faults, IInv, [Next]_vars, NEW m \in Results,
           task'[m].ack = "late", task[m].ack # "late"
    PROVE  /\ \/ /\ task[m].step = "lookup"
                 /\ waiterKey[task[m].request] = None
              \/ /\ task[m].step = "claim"
                 /\ task[m].request \in completed
           /\ UNCHANGED <<waiters, target, resultBus>>
           /\ \A n \in Results \ {m} : task'[n] = task[n]
           /\ task[m].step # "free"
<1> USE DEF invokeVars, waiterVars, redisVars, busVars, linkVars, frameVars
<1>0. TypeOK /\ \A n \in Results : task[n] \in Task
  BY DEF IInv, TypeOK
<1>1. PICK n \in Results :
          \/ ResultStep(n)
          \/ \E r \in Requests, c \in Clients, i \in Instances :
                 ReceiveResult(n, r, c, i)
  <2>1. task' # task
    OBVIOUS
  <2> QED
    BY <2>1
    DEF Next, CallStep, InstanceStep, vars, Invoke, DeadlinePasses,
        WaiterTimesOut, MarkWaiting, FindHolder, NoHolder, GiveUp, CancelWaiter,
        DeliverLocalJob, RefuseLocalJob, ForwardJob, DispatchFails, AwaitEnds,
        WaiterKeyExpires, CompletedExpires, Register, SocketCloses, ReceiveJob,
        ReceiveRoutedResult, ReleaseRouted, LoseRelease, Crash, SessionEnds,
        LoseMessage, CommandSentAgain
<1>2. ASSUME NEW r \in Requests, NEW c \in Clients, NEW i \in Instances,
             ReceiveResult(n, r, c, i)
      PROVE  FALSE
  BY <1>0, <1>2 DEF ReceiveResult, TypeOK
<1>3. ~(ResolveLocally(n) \/ ReleaseCompleted(n) \/ PublishResult(n))
  <2>1. ASSUME NEW a \in {"ok", "mismatch", "routed"}, task' = Finished(n, a)
        PROVE  FALSE
    BY <1>0, <2>1 DEF Finished, TypeOK, Task
  <2>2. ASSUME NEW s, task' = [task EXCEPT ![n].step = s] PROVE FALSE
    BY <1>0, <2>2 DEF TypeOK, Task
  <2> QED
    BY <2>1, <2>2 DEF ResolveLocally, ReleaseCompleted, PublishResult
<1>4. ~ResultFails(n) /\ ~ResultSentAgain(n)
  BY DEF ResultFails, ResultSentAgain
<1>5. LookUpWaiter(n) \/ ClaimCompleted(n)
  BY <1>1, <1>2, <1>3, <1>4 DEF ResultStep
<1>6. CASE LookUpWaiter(n)
  BY <1>0, <1>6 DEF LookUpWaiter, Finished, TypeOK, Task
<1>7. CASE ClaimCompleted(n)
  BY <1>0, <1>7 DEF ClaimCompleted, Finished, TypeOK, Task
<1> QED
  BY <1>5, <1>6, <1>7

LEMMA PromptNext == OrderedInv /\ ~Faults /\ [Next]_vars => PromptResultNotLate'
<1> SUFFICES ASSUME OrderedInv, ~Faults, [Next]_vars, NEW m \in Results,
                    task'[m].ack = "late", task'[m].request \in waiters',
                    \A n \in Results :
                        task'[n].request = task'[m].request =>
                            task'[n].from = target'[task'[m].request]
             PROVE  \E n \in Results \ {m} : Bringing(n, task[m].request)'
                    /\ task'[m].request = task[m].request
  BY DEF PromptResultNotLate, Bringing
<1> DEFINE r == task[m].request
<1>0. IInv /\ TypeOK
  BY DEF OrderedInv, IInv
<1>1. task[m].step # "free"
  <2>1. CASE task[m].ack = "late"
    BY <1>0, <2>1 DEF IInv, FramesWellFormed
  <2>2. CASE task[m].ack # "late"
    BY <1>0, <2>2, LateSaid
  <2> QED
    BY <2>1, <2>2
<1>2. r \in Requests /\ r \in delivered /\ phase[r] # "idle"
      /\ task'[m].request = r
  BY <1>0, <1>1, FrameCall, FrameKept
<1>3. r \in waiters /\ target'[r] = target[r]
  BY <1>0, <1>2, CallKept
<1>4. ASSUME NEW n \in Results, task[n].request = r
      PROVE  task[n].step # "free" /\ task[n].from = target[r]
  <2>1. task[n].step # "free"
    BY <1>2, <1>4, RelayConstants DEF OrderedInv, FramesGoHome, FrameGoesHome
  <2> QED
    BY <1>0, <1>2, <1>3, <1>4, <2>1, FrameKept
<1>5. \E n \in Results \ {m} : Bringing(n, r)
  <2>1. CASE task[m].ack = "late"
    BY <1>3, <1>4, <2>1 DEF OrderedInv, PromptResultNotLate
  <2>2. CASE task[m].ack # "late"
    <3>1. waiterKey[r] = home[r] /\ home[r] \in Instances
      <4>1. phase[r] = "waiting"
        BY <1>0, <1>2, <1>3
        DEF IInv, JobsOfOpenCalls, WaitersMatchCalls, Ended
      <4> QED
        BY <1>0, <1>2, <1>3, <4>1 DEF IInv, WaiterKeySet, CallsWellFormed
    <3>2. task[m].step = "claim" /\ r \in completed
      BY <1>0, <2>2, <3>1, LateSaid, RelayConstants
    <3>3. PICK n \in Results :
              /\ task[n].request = r
              /\ \/ task[n].step \in {"resolve", "release", "publish"}
                 \/ \E i \in Instances :
                        <<i, n>> \in resultBus \/ <<i, n>> \in releasing
      BY <1>3, <3>2 DEF OrderedInv, CompletedIsCarried, Carried
    <3>4. n # m
      BY <1>0, <3>2, <3>3, CarrierReceived
    <3>5. ~Refused(n)
      BY <1>3, <1>4, <3>3 DEF Refused
    <3>6. task[n].step # "release" /\ \A i \in Instances : <<i, n>> \notin releasing
      <4>1. ASSUME NEW i \in Instances, <<i, n>> \in releasing PROVE FALSE
        <5>1. Refused(<<i, n>>[2])
          BY <4>1 DEF OrderedInv, FramesGoHome
        <5> QED
          BY <3>5, <5>1
      <4> QED
        BY <3>5, <4>1 DEF OrderedInv, FramesGoHome, FrameGoesHome
    <3> QED
      BY <3>3, <3>4, <3>6 DEF Bringing
  <2> QED
    BY <2>1, <2>2
<1>6. PICK n \in Results \ {m} : Bringing(n, r)
  BY <1>5
<1>7. task[n].from = target[r]
  BY <1>4, <1>6 DEF Bringing
<1>8. task'[n].request = r /\ Bringing(n, r)'
  BY <1>0, <1>2, <1>6, <1>7, BringingKept DEF OrderedInv, Bringing
<1> QED
  BY <1>2, <1>8

LEMMA OrderedInit == Init => OrderedInv
<1> SUFFICES ASSUME Init PROVE OrderedInv
  OBVIOUS
<1>1. IInv
  BY InvInit
<1>2. KeysNameHome /\ FramesGoHome
  BY DEF Init, KeysNameHome, FramesGoHome, FrameGoesHome
<1>3. CompletedIsCarried /\ PromptResultNotLate
  BY DEF Init, CompletedIsCarried, PromptResultNotLate
<1> QED
  BY <1>1, <1>2, <1>3 DEF OrderedInv

\* The strengthening holds in every reachable state of a relay that loses
\* nothing, whatever the number of calls, devices, instances and frames.
THEOREM OrderedHolds == ASSUME ~Faults PROVE Spec => []OrderedInv
<1>1. OrderedInv /\ [Next]_vars => OrderedInv'
  BY InvNext, KeysNext, FramesGoNext, CarriedNext, PromptNext DEF OrderedInv
<1> QED
  BY <1>1, OrderedInit, PTL DEF Spec

\* Without failures, the completed slot of a waiting call is always held by a
\* frame that will resolve it or by a handler that will give it back
\* (handleResult's SET NX and its two DELs).
THEOREM CompletedIsCarriedHolds ==
    ASSUME ~Faults PROVE Spec => []CompletedIsCarried
<1>1. OrderedInv => CompletedIsCarried
  BY DEF OrderedInv
<1> QED
  BY <1>1, OrderedHolds, PTL

\* Without failures, and while only the addressed device answers, no frame is
\* told "late" for a waiting call unless another one is on its way to it
\* (handleResult against markWaiting and the completed slot).
THEOREM PromptResultNotLateHolds ==
    ASSUME ~Faults PROVE Spec => []PromptResultNotLate
<1>1. OrderedInv => PromptResultNotLate
  BY DEF OrderedInv
<1> QED
  BY <1>1, OrderedHolds, PTL
=============================================================================
