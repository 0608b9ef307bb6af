--------------------------- MODULE RpcRelay_proofs ---------------------------
(* Proofs about RpcRelay, for any requests, devices, instances and frames.  *)
EXTENDS RpcRelay, Integers, TLAPS

LEMMA FinishedType ==
    ASSUME TypeOK, NEW m \in Results, NEW a \in Acks
    PROVE  Finished(m, a) \in [Results -> Task]
<1>1. task[m] \in Task
  BY DEF TypeOK
<1>2. [task[m] EXCEPT !.step = "done", !.ack = a] \in Task
  BY <1>1 DEF Task, Steps
<1> QED
  BY <1>2 DEF TypeOK, Finished

LEMMA FinishedKeeps ==
    ASSUME TypeOK, NEW m \in Results, NEW a
    PROVE  \A n \in Results :
               /\ Finished(m, a)[n].request = task[n].request
               /\ Finished(m, a)[n].from = task[n].from
               /\ task[n].step # "free" => Finished(m, a)[n].step # "free"
               /\ n # m => Finished(m, a)[n] = task[n]
<1>1. \A n \in Results : task[n] \in Task
  BY DEF TypeOK
<1> QED
  BY <1>1 DEF Finished, TypeOK, Task

LEMMA StepType ==
    ASSUME TypeOK, NEW m \in Results, NEW s \in Steps
    PROVE  [task EXCEPT ![m].step = s] \in [Results -> Task]
<1>1. task[m] \in Task
  BY DEF TypeOK
<1>2. [task[m] EXCEPT !.step = s] \in Task
  BY <1>1 DEF Task
<1> QED
  BY <1>2 DEF TypeOK

LEMMA FrameFacts ==
    ASSUME IInv, NEW m \in Results, task[m].step # "free"
    PROVE  /\ task[m].request \in Requests
           /\ task[m].request \in delivered
           /\ task[m].at \in Instances
BY DEF IInv, TypeOK, FramesWellFormed

LEMMA AcceptedFacts ==
    ASSUME IInv, NEW m \in Results, NEW i, task[m].step # "free", Accepts(i, m)
    PROVE  /\ task[m].request \in Requests
           /\ task[m].request \in waiters
           /\ promise[task[m].request] = "pending"
           /\ resolver[task[m].request] = None
           /\ ~Ended(task[m].request)
           /\ task[m].from = target[task[m].request]
BY FrameFacts DEF IInv, WaitersMatchCalls, SettledByTarget, Accepts

LEMMA TypeInit == Init => TypeOK
BY DEF Init, TypeOK, Phases, Task, Steps, Acks, Clients

LEMMA TypeNext == IInv /\ [Next]_vars => TypeOK'
<1> SUFFICES ASSUME IInv, [Next]_vars PROVE TypeOK'
  OBVIOUS
<1>0. TypeOK
  BY DEF IInv
<1> USE DEF invokeVars, waiterVars, redisVars, busVars, linkVars, frameVars
<1>1. ASSUME NEW r \in Requests, NEW i \in Instances, NEW d \in Devices,
             Invoke(r, i, d)
      PROVE  TypeOK'
  BY <1>0, <1>1 DEF TypeOK, Invoke, Phases
<1>2. ASSUME NEW r \in Requests, CallStep(r) PROVE TypeOK'
  <2>1. CASE DeadlinePasses(r)
    BY <1>0, <2>1 DEF TypeOK, DeadlinePasses
  <2>2. CASE WaiterTimesOut(r)
    BY <1>0, <2>2 DEF TypeOK, WaiterTimesOut
  <2>3. CASE MarkWaiting(r)
    BY <1>0, <2>3 DEF TypeOK, MarkWaiting, Phases
  <2>4. CASE FindHolder(r)
    BY <1>0, <2>4 DEF IInv, TypeOK, CallsWellFormed, FindHolder, Phases
  <2>5. CASE NoHolder(r)
    BY <1>0, <2>5 DEF TypeOK, NoHolder, GiveUp, CancelWaiter, Phases
  <2>6. CASE DeliverLocalJob(r)
    BY <1>0, <2>6 DEF TypeOK, DeliverLocalJob, Phases
  <2>7. CASE RefuseLocalJob(r)
    BY <1>0, <2>7 DEF TypeOK, RefuseLocalJob, GiveUp, CancelWaiter, Phases
  <2>8. CASE ForwardJob(r)
    BY <1>0, <2>8 DEF TypeOK, ForwardJob, PublishedJob, Phases
  <2>9. CASE DispatchFails(r)
    BY <1>0, <2>9 DEF TypeOK, DispatchFails, FailedCommand, PublishedJob, GiveUp,
                CancelWaiter, Phases
  <2>10. CASE AwaitEnds(r)
    BY <1>0, <2>10 DEF TypeOK, AwaitEnds, Phases
  <2>11. CASE WaiterKeyExpires(r)
    BY <1>0, <2>11 DEF TypeOK, WaiterKeyExpires
  <2>12. CASE CompletedExpires(r)
    BY <1>0, <2>12 DEF TypeOK, CompletedExpires
  <2>13. CASE CommandSentAgain(r)
    BY <1>0, <2>13 DEF TypeOK, CommandSentAgain, PublishedJob
  <2> QED
    BY <1>0, <1>2, <2>1, <2>2, <2>3, <2>4, <2>5, <2>6, <2>7, <2>8, <2>9, <2>10,
       <2>11, <2>12, <2>13 DEF CallStep
<1>3. ASSUME NEW m \in Results, NEW r \in Requests, NEW c \in Clients,
             NEW i \in Instances, ReceiveResult(m, r, c, i)
      PROVE  TypeOK'
  BY <1>0, <1>3 DEF TypeOK, ReceiveResult, Task, Steps, Acks
<1>4. ASSUME NEW m \in Results, ResultStep(m) PROVE TypeOK'
  <2>0. /\ "none" \in Acks /\ "ok" \in Acks /\ "late" \in Acks
        /\ "routed" \in Acks /\ "mismatch" \in Acks
    BY DEF Acks
  <2>1. task[m] \in Task
    BY <1>0 DEF TypeOK
  <2>2. CASE LookUpWaiter(m)
    <3> DEFINE key == waiterKey[task[m].request]
    <3>1. key \in Instances \cup {None}
      BY <1>0, <2>2, FrameFacts DEF LookUpWaiter, TypeOK
    <3>2. [task[m] EXCEPT !.step = "claim", !.waiterAt = key] \in Task
      BY <2>1, <3>1 DEF Task, Steps
    <3>3. task' \in [Results -> Task]
      BY <1>0, <2>0, <2>2, <3>2, FinishedType DEF LookUpWaiter, TypeOK
    <3> QED
      BY <1>0, <2>2, <3>3 DEF TypeOK, LookUpWaiter
  <2>3. CASE ClaimCompleted(m)
    <3>1. task' \in [Results -> Task]
      BY <1>0, <2>0, <2>3, FinishedType, StepType DEF ClaimCompleted, Steps
    <3>2. task[m].request \in Requests
      BY <2>3, FrameFacts DEF ClaimCompleted
    <3> QED
      BY <1>0, <2>3, <3>1, <3>2 DEF TypeOK, ClaimCompleted
  <2>4. CASE ResolveLocally(m)
    <3>0. \/ task' = Finished(m, "ok")
          \/ task' = [task EXCEPT ![m].step = "release"]
      BY <2>4 DEF ResolveLocally
    <3>1. task' \in [Results -> Task]
      <4>1. CASE task' = Finished(m, "ok")
        BY <1>0, <2>0, <4>1, FinishedType
      <4>2. CASE task' = [task EXCEPT ![m].step = "release"]
        <5>1. "release" \in Steps
          BY DEF Steps
        <5> QED
          BY <1>0, <4>2, <5>1, StepType
      <4> QED
        BY <3>0, <4>1, <4>2
    <3>2. task[m].request \in Requests
      BY <2>4, FrameFacts DEF ResolveLocally
    <3> QED
      BY <1>0, <2>4, <3>1, <3>2 DEF TypeOK, ResolveLocally, ResolveWaiter
  <2>5. CASE ReleaseCompleted(m)
    BY <1>0, <2>0, <2>1, <2>5, FinishedType DEF TypeOK, ReleaseCompleted
  <2>6. CASE PublishResult(m)
    <3>1. task' \in [Results -> Task]
      BY <1>0, <2>0, <2>6, FinishedType DEF PublishResult
    <3> QED
      BY <1>0, <2>6, <3>1 DEF TypeOK, PublishResult, PublishedResult
  <2>7. CASE ResultFails(m)
    <3>1. task' \in [Results -> Task]
      BY <1>0, <2>0, <2>7, FinishedType DEF ResultFails
    <3>2. task[m].request \in Requests
      BY <2>7, FrameFacts DEF ResultFails
    <3> QED
      BY <1>0, <2>7, <3>1, <3>2 DEF TypeOK, ResultFails, PublishedResult
  <2>8. CASE ResultSentAgain(m)
    <3>1. task[m].request \in Requests
      BY <2>8, FrameFacts DEF ResultSentAgain
    <3> QED
      BY <1>0, <2>8, <3>1 DEF TypeOK, ResultSentAgain, PublishedResult
  <2> QED
    BY <1>0, <1>4, <2>2, <2>3, <2>4, <2>5, <2>6, <2>7, <2>8 DEF ResultStep
<1>5. ASSUME NEW i \in Instances, InstanceStep(i) PROVE TypeOK'
  <2>1. ASSUME NEW d \in Devices, Register(i, d) PROVE TypeOK'
    BY <1>0, <2>1 DEF TypeOK, Register
  <2>2. ASSUME NEW d \in Devices, SocketCloses(i, d) PROVE TypeOK'
    BY <1>0, <2>2 DEF TypeOK, SocketCloses
  <2>3. ASSUME NEW r \in Requests, ReceiveJob(i, r) PROVE TypeOK'
    BY <1>0, <2>3 DEF TypeOK, ReceiveJob
  <2>4. ASSUME NEW m \in Results, ReceiveRoutedResult(i, m) PROVE TypeOK'
    BY <1>0, <2>4 DEF IInv, TypeOK, FramesWellFormed, ReceiveRoutedResult, ResolveWaiter, Accepts
  <2>5. ASSUME NEW m \in Results, ReleaseRouted(i, m) PROVE TypeOK'
    BY <1>0, <2>5 DEF TypeOK, ReleaseRouted
  <2>6. ASSUME NEW m \in Results, LoseRelease(i, m) PROVE TypeOK'
    BY <1>0, <2>6 DEF TypeOK, LoseRelease
  <2>7. CASE Crash(i)
    <3>1. \A m \in Results : [task[m] EXCEPT !.step = "done"] \in Task
      BY <1>0 DEF TypeOK, Task, Steps
    <3>2. task' \in [Results -> Task]
      BY <1>0, <2>7, <3>1 DEF TypeOK, Crash
    <3> QED
      BY <1>0, <2>7, <3>2 DEF TypeOK, Crash, Phases
  <2> QED
    BY <1>0, <1>5, <2>1, <2>2, <2>3, <2>4, <2>5, <2>6, <2>7 DEF InstanceStep
<1>6. ASSUME NEW d \in Devices, SessionEnds(d) PROVE TypeOK'
  BY <1>0, <1>6 DEF TypeOK, SessionEnds
<1>7. CASE LoseMessage
  BY <1>0, <1>7 DEF TypeOK, LoseMessage
<1>8. CASE UNCHANGED vars
  BY <1>0, <1>8 DEF TypeOK, vars
<1> QED
  BY <1>0, <1>1, <1>2, <1>3, <1>4, <1>5, <1>6, <1>7, <1>8 DEF Next


LEMMA CallsNext == IInv /\ [Next]_vars => CallsWellFormed'
<1> SUFFICES ASSUME IInv, [Next]_vars PROVE CallsWellFormed'
  OBVIOUS
<1> USE DEF invokeVars, waiterVars, redisVars, busVars, linkVars, frameVars
<1>1. ASSUME NEW r \in Requests, NEW i \in Instances, NEW d \in Devices,
             Invoke(r, i, d)
      PROVE  CallsWellFormed'
  BY <1>1 DEF IInv, TypeOK, Ended, CallsWellFormed, Invoke
<1>2. ASSUME NEW r \in Requests, WaiterTimesOut(r)
      PROVE  CallsWellFormed'
  BY <1>2 DEF IInv, TypeOK, Ended, WaitersMatchCalls, CallsWellFormed,
     WaiterTimesOut
<1>3. ASSUME NEW r \in Requests, MarkWaiting(r)
      PROVE  CallsWellFormed'
  BY <1>3 DEF IInv, TypeOK, Ended, CallsWellFormed, MarkWaiting
<1>4. ASSUME NEW r \in Requests, FindHolder(r)
      PROVE  CallsWellFormed'
  BY <1>4 DEF IInv, TypeOK, Ended, CallsWellFormed, FindHolder
<1>5. ASSUME NEW r \in Requests, NoHolder(r)
      PROVE  CallsWellFormed'
  BY <1>5 DEF IInv, TypeOK, Ended, CallsWellFormed, NoHolder, GiveUp,
     CancelWaiter
<1>6. ASSUME NEW r \in Requests, DeliverLocalJob(r)
      PROVE  CallsWellFormed'
  BY <1>6 DEF IInv, TypeOK, Ended, CallsWellFormed, DeliverLocalJob
<1>7. ASSUME NEW r \in Requests, RefuseLocalJob(r)
      PROVE  CallsWellFormed'
  BY <1>7 DEF IInv, TypeOK, Ended, CallsWellFormed, RefuseLocalJob, GiveUp,
     CancelWaiter
<1>8. ASSUME NEW r \in Requests, ForwardJob(r)
      PROVE  CallsWellFormed'
  BY <1>8 DEF IInv, TypeOK, Ended, CallsWellFormed, ForwardJob, PublishedJob
<1>9. ASSUME NEW r \in Requests, DispatchFails(r)
      PROVE  CallsWellFormed'
  BY <1>9 DEF IInv, TypeOK, Ended, CallsWellFormed, DispatchFails,
     FailedCommand, PublishedJob, GiveUp, CancelWaiter
<1>10. ASSUME NEW r \in Requests, AwaitEnds(r)
      PROVE  CallsWellFormed'
  BY <1>10 DEF IInv, TypeOK, Ended, CallsWellFormed, AwaitEnds
<1>11. ASSUME NEW m \in Results, ResolveLocally(m)
      PROVE  CallsWellFormed'
  BY <1>11 DEF IInv, TypeOK, FramesWellFormed, JobsOfOpenCalls,
     WaitersMatchCalls, CallsWellFormed, ResolveLocally, ResolveWaiter,
     Accepts, Finished
<1>12. ASSUME NEW i \in Instances, NEW m \in Results, ReceiveRoutedResult(i,
             m)
      PROVE  CallsWellFormed'
  BY <1>12 DEF IInv, TypeOK, FramesWellFormed, JobsOfOpenCalls,
     WaitersMatchCalls, CallsWellFormed, ReceiveRoutedResult, ResolveWaiter,
     Accepts
<1>13. ASSUME NEW i \in Instances, Crash(i)
      PROVE  CallsWellFormed'
  BY <1>13 DEF IInv, TypeOK, Ended, CallsWellFormed, Crash
<1>14. CASE UNCHANGED <<phase, home, target, holder, promise, outcome>>
  BY <1>14 DEF IInv, TypeOK, FramesWellFormed, JobsOfOpenCalls,
     WaitersMatchCalls, CallsWellFormed
<1> QED
  BY <1>1, <1>2, <1>3, <1>4, <1>5, <1>6, <1>7, <1>8, <1>9, <1>10, <1>11,
     <1>12, <1>13, <1>14 DEF Next, CallStep, ResultStep, InstanceStep, vars,
     DeadlinePasses, WaiterKeyExpires, CompletedExpires, ReceiveResult,
     LookUpWaiter, Finished, ClaimCompleted, ReleaseCompleted, PublishResult,
     PublishedResult, ResultFails, Register, SocketCloses, ReceiveJob,
     ReleaseRouted, LoseRelease, SessionEnds, LoseMessage,
     CommandSentAgain, ResultSentAgain

LEMMA FramesNext == IInv /\ [Next]_vars => FramesWellFormed'
<1> SUFFICES ASSUME IInv, [Next]_vars PROVE FramesWellFormed'
  OBVIOUS
<1> USE DEF invokeVars, waiterVars, redisVars, busVars, linkVars, frameVars
<1>1. ASSUME NEW r \in Requests, NEW i \in Instances, NEW d \in Devices,
             Invoke(r, i, d)
      PROVE  FramesWellFormed'
  BY <1>1 DEF IInv, TypeOK, JobsOfOpenCalls, FramesWellFormed, Invoke
<1>2. ASSUME NEW r \in Requests, DeliverLocalJob(r)
      PROVE  FramesWellFormed'
  BY <1>2 DEF IInv, TypeOK, FramesWellFormed, DeliverLocalJob
<1>3. ASSUME NEW i \in Instances, NEW r \in Requests, ReceiveJob(i, r)
      PROVE  FramesWellFormed'
  BY <1>3 DEF IInv, TypeOK, FramesWellFormed, ReceiveJob
<1>4. ASSUME NEW m \in Results, NEW r \in Requests, NEW c \in Clients, NEW i
             \in Instances, ReceiveResult(m, r, c, i)
      PROVE  FramesWellFormed'
  BY <1>4 DEF IInv, TypeOK, FramesWellFormed, ReceiveResult
<1>5. ASSUME NEW m \in Results, LookUpWaiter(m)
      PROVE  FramesWellFormed'
  BY <1>5 DEF IInv, TypeOK, FramesWellFormed, LookUpWaiter, Finished
<1>6. ASSUME NEW m \in Results, ClaimCompleted(m)
      PROVE  FramesWellFormed'
  BY <1>6 DEF IInv, TypeOK, FramesWellFormed, ClaimCompleted, Finished
<1>7. ASSUME NEW m \in Results, ResolveLocally(m)
      PROVE  FramesWellFormed'
  <2>1. CASE task' = Finished(m, "ok")
    BY <1>7, <2>1 DEF IInv, TypeOK, FramesWellFormed, ResolveLocally, Finished
  <2>2. CASE task' = [task EXCEPT ![m].step = "release"]
    BY <1>7, <2>2 DEF IInv, TypeOK, FramesWellFormed, ResolveLocally
  <2> QED
    BY <1>7, <2>1, <2>2 DEF ResolveLocally
<1>8. ASSUME NEW m \in Results, ReleaseCompleted(m)
      PROVE  FramesWellFormed'
  BY <1>8 DEF IInv, TypeOK, FramesWellFormed, ReleaseCompleted, Finished
<1>9. ASSUME NEW m \in Results, PublishResult(m)
      PROVE  FramesWellFormed'
  BY <1>9 DEF IInv, TypeOK, FramesWellFormed, PublishResult, PublishedResult,
     Finished
<1>10. ASSUME NEW m \in Results, ResultFails(m)
      PROVE  FramesWellFormed'
  BY <1>10 DEF IInv, TypeOK, FramesWellFormed, ResultFails, PublishedResult,
     Finished
<1>11. ASSUME NEW i \in Instances, NEW m \in Results, ReceiveRoutedResult(i,
             m)
      PROVE  FramesWellFormed'
  BY <1>11 DEF IInv, TypeOK, FramesWellFormed, ReceiveRoutedResult,
     ResolveWaiter, Accepts
<1>12. ASSUME NEW i \in Instances, NEW m \in Results, ReleaseRouted(i, m)
      PROVE  FramesWellFormed'
  BY <1>12 DEF IInv, TypeOK, FramesWellFormed, ReleaseRouted
<1>13. ASSUME NEW i \in Instances, NEW m \in Results, LoseRelease(i, m)
      PROVE  FramesWellFormed'
  BY <1>13 DEF IInv, TypeOK, FramesWellFormed, LoseRelease
<1>14. ASSUME NEW i \in Instances, Crash(i)
      PROVE  FramesWellFormed'
  <2>1. \A m \in Results :
            \/ task'[m] = task[m]
            \/ /\ task'[m] = [task[m] EXCEPT !.step = "done"]
               /\ task[m].at = i
    BY <1>14 DEF Crash
  <2>2. \A m \in Results : task[m] \in Task
    BY DEF IInv, TypeOK
  <2>3. \A m \in Results :
            /\ task'[m].request = task[m].request
            /\ task'[m].from = task[m].from
            /\ task'[m].at = task[m].at
            /\ task'[m].waiterAt = task[m].waiterAt
            /\ task'[m].ack = task[m].ack
            /\ \/ task'[m].step = task[m].step
               \/ task'[m].step = "done" /\ task[m].at = i
    BY <2>1, <2>2 DEF Task
  <2>4. None # i
    BY <1>14, RelayConstants
  <2>5. /\ resultBus' \subseteq resultBus
        /\ releasing' \subseteq releasing
        /\ target' = target /\ delivered' = delivered
    BY <1>14 DEF Crash
  <2>6. \A p \in resultBus' \cup releasing' : p[2] \in Results
    BY <2>5 DEF IInv, TypeOK
  <2> QED
    BY <2>3, <2>4, <2>5, <2>6 DEF IInv, FramesWellFormed
<1>15. CASE LoseMessage
  BY <1>15 DEF IInv, TypeOK, FramesWellFormed, LoseMessage
<1>16. ASSUME NEW m \in Results, ResultSentAgain(m)
      PROVE  FramesWellFormed'
  BY <1>16 DEF IInv, TypeOK, FramesWellFormed, ResultSentAgain, PublishedResult
<1>17. CASE UNCHANGED <<target, delivered, resultBus, task, releasing>>
  BY <1>17 DEF IInv, TypeOK, FramesWellFormed
<1> QED
  BY <1>1, <1>2, <1>3, <1>4, <1>5, <1>6, <1>7, <1>8, <1>9, <1>10, <1>11,
     <1>12, <1>13, <1>14, <1>15, <1>16, <1>17 DEF Next, CallStep, ResultStep,
     InstanceStep, vars, DeadlinePasses, WaiterTimesOut, MarkWaiting,
     FindHolder, NoHolder, GiveUp, CancelWaiter, RefuseLocalJob, ForwardJob,
     PublishedJob, DispatchFails, FailedCommand, CommandSentAgain, AwaitEnds,
     WaiterKeyExpires, CompletedExpires, Register, SocketCloses, SessionEnds

LEMMA WaitersNext == IInv /\ [Next]_vars => WaitersMatchCalls'
<1> SUFFICES ASSUME IInv, [Next]_vars PROVE WaitersMatchCalls'
  OBVIOUS
<1> USE DEF invokeVars, waiterVars, redisVars, busVars, linkVars, frameVars
<1>1. ASSUME NEW r \in Requests, NEW i \in Instances, NEW d \in Devices,
             Invoke(r, i, d)
      PROVE  WaitersMatchCalls'
  BY <1>1 DEF IInv, TypeOK, Ended, WaitersMatchCalls, Invoke
<1>2. ASSUME NEW r \in Requests, WaiterTimesOut(r)
      PROVE  WaitersMatchCalls'
  BY <1>2 DEF IInv, TypeOK, Ended, WaitersMatchCalls, WaiterTimesOut
<1>3. ASSUME NEW r \in Requests, MarkWaiting(r)
      PROVE  WaitersMatchCalls'
  BY <1>3 DEF IInv, TypeOK, Ended, WaitersMatchCalls, MarkWaiting
<1>4. ASSUME NEW r \in Requests, FindHolder(r)
      PROVE  WaitersMatchCalls'
  BY <1>4 DEF IInv, TypeOK, Ended, WaitersMatchCalls, FindHolder
<1>5. ASSUME NEW r \in Requests, NoHolder(r)
      PROVE  WaitersMatchCalls'
  BY <1>5 DEF IInv, TypeOK, Ended, WaitersMatchCalls, NoHolder, GiveUp,
     CancelWaiter
<1>6. ASSUME NEW r \in Requests, DeliverLocalJob(r)
      PROVE  WaitersMatchCalls'
  BY <1>6 DEF IInv, TypeOK, Ended, WaitersMatchCalls, DeliverLocalJob
<1>7. ASSUME NEW r \in Requests, RefuseLocalJob(r)
      PROVE  WaitersMatchCalls'
  BY <1>7 DEF IInv, TypeOK, Ended, WaitersMatchCalls, RefuseLocalJob, GiveUp,
     CancelWaiter
<1>8. ASSUME NEW r \in Requests, ForwardJob(r)
      PROVE  WaitersMatchCalls'
  BY <1>8 DEF IInv, TypeOK, Ended, WaitersMatchCalls, ForwardJob,
     PublishedJob
<1>9. ASSUME NEW r \in Requests, DispatchFails(r)
      PROVE  WaitersMatchCalls'
  BY <1>9 DEF IInv, TypeOK, Ended, WaitersMatchCalls, DispatchFails,
     FailedCommand, PublishedJob, GiveUp, CancelWaiter
<1>10. ASSUME NEW r \in Requests, AwaitEnds(r)
      PROVE  WaitersMatchCalls'
  BY <1>10 DEF IInv, TypeOK, Ended, WaitersMatchCalls, AwaitEnds
<1>11. ASSUME NEW m \in Results, ResolveLocally(m)
      PROVE  WaitersMatchCalls'
  BY <1>11 DEF IInv, TypeOK, Ended, FramesWellFormed, WaitersMatchCalls,
     ResolveLocally, ResolveWaiter, Accepts, Finished
<1>12. ASSUME NEW i \in Instances, NEW m \in Results, ReceiveRoutedResult(i,
             m)
      PROVE  WaitersMatchCalls'
  BY <1>12 DEF IInv, TypeOK, Ended, FramesWellFormed, WaitersMatchCalls,
     ReceiveRoutedResult, ResolveWaiter, Accepts
<1>13. ASSUME NEW i \in Instances, Crash(i)
      PROVE  WaitersMatchCalls'
  BY <1>13 DEF IInv, TypeOK, Ended, CallsWellFormed, WaitersMatchCalls, Crash
<1>14. CASE UNCHANGED <<phase, waiters, promise>>
  BY <1>14 DEF IInv, TypeOK, Ended, WaitersMatchCalls
<1> QED
  BY <1>1, <1>2, <1>3, <1>4, <1>5, <1>6, <1>7, <1>8, <1>9, <1>10, <1>11,
     <1>12, <1>13, <1>14 DEF Next, CallStep, ResultStep, InstanceStep, vars,
     DeadlinePasses, WaiterKeyExpires, CompletedExpires, ReceiveResult,
     LookUpWaiter, Finished, ClaimCompleted, ReleaseCompleted, PublishResult,
     PublishedResult, ResultFails, Register, SocketCloses, ReceiveJob,
     ReleaseRouted, LoseRelease, SessionEnds, LoseMessage,
     CommandSentAgain, ResultSentAgain

LEMMA JobsNext == IInv /\ [Next]_vars => JobsOfOpenCalls'
<1> SUFFICES ASSUME IInv, [Next]_vars PROVE JobsOfOpenCalls'
  OBVIOUS
<1> USE DEF invokeVars, waiterVars, redisVars, busVars, linkVars, frameVars
<1>1. ASSUME NEW r \in Requests, NEW i \in Instances, NEW d \in Devices,
             Invoke(r, i, d)
      PROVE  JobsOfOpenCalls'
  BY <1>1 DEF IInv, TypeOK, JobsOfOpenCalls, Invoke
<1>2. ASSUME NEW r \in Requests, MarkWaiting(r)
      PROVE  JobsOfOpenCalls'
  BY <1>2 DEF IInv, TypeOK, JobsOfOpenCalls, MarkWaiting
<1>3. ASSUME NEW r \in Requests, FindHolder(r)
      PROVE  JobsOfOpenCalls'
  BY <1>3 DEF IInv, TypeOK, JobsOfOpenCalls, FindHolder
<1>4. ASSUME NEW r \in Requests, NoHolder(r)
      PROVE  JobsOfOpenCalls'
  BY <1>4 DEF IInv, TypeOK, JobsOfOpenCalls, NoHolder, GiveUp, CancelWaiter
<1>5. ASSUME NEW r \in Requests, DeliverLocalJob(r)
      PROVE  JobsOfOpenCalls'
  BY <1>5 DEF IInv, TypeOK, CallsWellFormed, JobsOfOpenCalls, DeliverLocalJob
<1>6. ASSUME NEW r \in Requests, RefuseLocalJob(r)
      PROVE  JobsOfOpenCalls'
  BY <1>6 DEF IInv, TypeOK, JobsOfOpenCalls, RefuseLocalJob, GiveUp,
     CancelWaiter
<1>7. ASSUME NEW r \in Requests, ForwardJob(r)
      PROVE  JobsOfOpenCalls'
  BY <1>7 DEF IInv, TypeOK, CallsWellFormed, JobsOfOpenCalls, ForwardJob,
     PublishedJob
<1>8. ASSUME NEW r \in Requests, DispatchFails(r)
      PROVE  JobsOfOpenCalls'
  BY <1>8 DEF IInv, TypeOK, CallsWellFormed, JobsOfOpenCalls, DispatchFails,
     FailedCommand,
     PublishedJob, GiveUp, CancelWaiter
<1>9. ASSUME NEW r \in Requests, AwaitEnds(r)
      PROVE  JobsOfOpenCalls'
  BY <1>9 DEF IInv, TypeOK, JobsOfOpenCalls, AwaitEnds
<1>10. ASSUME NEW i \in Instances, NEW r \in Requests, ReceiveJob(i, r)
      PROVE  JobsOfOpenCalls'
  BY <1>10 DEF IInv, TypeOK, JobsOfOpenCalls, ReceiveJob
<1>11. ASSUME NEW i \in Instances, Crash(i)
      PROVE  JobsOfOpenCalls'
  BY <1>11 DEF IInv, TypeOK, Ended, JobsOfOpenCalls, Crash
<1>12. CASE LoseMessage
  BY <1>12 DEF IInv, TypeOK, JobsOfOpenCalls, LoseMessage
<1>13. ASSUME NEW r \in Requests, CommandSentAgain(r)
      PROVE  JobsOfOpenCalls'
  <2>1. /\ UNCHANGED <<phase, outcome, holder, home, delivered>>
        /\ Faults
    BY <1>13 DEF CommandSentAgain
  <2>2. CASE jobBus' = jobBus
    BY <2>1, <2>2 DEF IInv, JobsOfOpenCalls
  <2>3. CASE phase[r] = "routing" /\ holder[r] # home[r]
             /\ jobBus' = jobBus \cup {<<holder[r], r>>}
    <3>1. outcome[r] # "unavailable"
      BY <2>3 DEF IInv, CallsWellFormed
    <3>2. \A q \in Requests \ {r}, i \in Instances :
              <<i, q>> \in jobBus' => <<i, q>> \in jobBus
      BY <2>3
    <3> QED
      BY <2>1, <2>3, <3>1, <3>2 DEF IInv, JobsOfOpenCalls
  <2> QED
    BY <1>13, <2>2, <2>3 DEF CommandSentAgain, PublishedJob
<1>14. CASE UNCHANGED <<phase, outcome, holder, home, delivered, jobBus>>
  BY <1>14 DEF IInv, TypeOK, JobsOfOpenCalls
<1> QED
  BY <1>1, <1>2, <1>3, <1>4, <1>5, <1>6, <1>7, <1>8, <1>9, <1>10, <1>11,
     <1>12, <1>13, <1>14 DEF Next, CallStep, ResultStep, InstanceStep, vars,
     DeadlinePasses, WaiterTimesOut, WaiterKeyExpires, CompletedExpires,
     ReceiveResult, LookUpWaiter, Finished, ClaimCompleted, ResolveLocally,
     ResolveWaiter, Accepts, ReleaseCompleted, PublishResult,
     PublishedResult, ResultFails, ResultSentAgain, Register, SocketCloses,
     ReceiveRoutedResult, ReleaseRouted, LoseRelease, SessionEnds

LEMMA SettledNext == IInv /\ [Next]_vars => SettledByTarget'
<1> SUFFICES ASSUME IInv, [Next]_vars PROVE SettledByTarget'
  OBVIOUS
<1> USE DEF invokeVars, waiterVars, redisVars, busVars, linkVars, frameVars
<1>1. ASSUME NEW r \in Requests, NEW i \in Instances, NEW d \in Devices,
             Invoke(r, i, d)
      PROVE  SettledByTarget'
  BY <1>1 DEF IInv, TypeOK, Ended, CallsWellFormed, FramesWellFormed,
     WaitersMatchCalls, SettledByTarget, Invoke
<1>2. ASSUME NEW r \in Requests, WaiterTimesOut(r)
      PROVE  SettledByTarget'
  BY <1>2 DEF IInv, TypeOK, Ended, CallsWellFormed, FramesWellFormed,
     WaitersMatchCalls, SettledByTarget, WaiterTimesOut
<1>3. ASSUME NEW r \in Requests, MarkWaiting(r)
      PROVE  SettledByTarget'
  BY <1>3 DEF IInv, TypeOK, Ended, CallsWellFormed, FramesWellFormed,
     WaitersMatchCalls, SettledByTarget, MarkWaiting
<1>4. ASSUME NEW r \in Requests, FindHolder(r)
      PROVE  SettledByTarget'
  BY <1>4 DEF IInv, TypeOK, Ended, CallsWellFormed, FramesWellFormed,
     WaitersMatchCalls, SettledByTarget, FindHolder
<1>5. ASSUME NEW r \in Requests, NoHolder(r)
      PROVE  SettledByTarget'
  BY <1>5 DEF IInv, TypeOK, Ended, CallsWellFormed, FramesWellFormed,
     WaitersMatchCalls, SettledByTarget, NoHolder, GiveUp, CancelWaiter
<1>6. ASSUME NEW r \in Requests, DeliverLocalJob(r)
      PROVE  SettledByTarget'
  BY <1>6 DEF IInv, TypeOK, Ended, CallsWellFormed, FramesWellFormed,
     WaitersMatchCalls, SettledByTarget, DeliverLocalJob
<1>7. ASSUME NEW r \in Requests, RefuseLocalJob(r)
      PROVE  SettledByTarget'
  BY <1>7 DEF IInv, TypeOK, Ended, CallsWellFormed, FramesWellFormed,
     WaitersMatchCalls, SettledByTarget, RefuseLocalJob, GiveUp, CancelWaiter
<1>8. ASSUME NEW r \in Requests, ForwardJob(r)
      PROVE  SettledByTarget'
  BY <1>8 DEF IInv, TypeOK, Ended, CallsWellFormed, FramesWellFormed,
     WaitersMatchCalls, SettledByTarget, ForwardJob, PublishedJob
<1>9. ASSUME NEW r \in Requests, DispatchFails(r)
      PROVE  SettledByTarget'
  BY <1>9 DEF IInv, TypeOK, Ended, CallsWellFormed, FramesWellFormed,
     WaitersMatchCalls, SettledByTarget, DispatchFails, FailedCommand,
     PublishedJob, GiveUp, CancelWaiter
<1>10. ASSUME NEW r \in Requests, AwaitEnds(r)
      PROVE  SettledByTarget'
  BY <1>10 DEF IInv, TypeOK, Ended, CallsWellFormed, FramesWellFormed,
     WaitersMatchCalls, SettledByTarget, AwaitEnds
<1>11. ASSUME NEW r \in Requests, DeadlinePasses(r)
      PROVE  SettledByTarget'
  BY <1>11 DEF IInv, TypeOK, Ended, SettledByTarget, DeadlinePasses
<1>12. ASSUME NEW m \in Results, NEW r \in Requests, NEW c \in Clients, NEW i
             \in Instances, ReceiveResult(m, r, c, i)
      PROVE  SettledByTarget'
  BY <1>12 DEF IInv, TypeOK, Ended, SettledByTarget, ReceiveResult
<1>13. ASSUME NEW m \in Results, LookUpWaiter(m)
      PROVE  SettledByTarget'
  BY <1>13 DEF IInv, TypeOK, Ended, SettledByTarget, LookUpWaiter, Finished
<1>14. ASSUME NEW m \in Results, ClaimCompleted(m)
      PROVE  SettledByTarget'
  BY <1>14 DEF IInv, TypeOK, Ended, SettledByTarget, ClaimCompleted, Finished
<1>15. ASSUME NEW m \in Results, ResolveLocally(m)
      PROVE  SettledByTarget'
  <2>1. CASE Accepts(task[m].at, m)
    <3> DEFINE q == task[m].request
    <3>1. /\ q \in Requests /\ q \in waiters
          /\ promise[q] = "pending" /\ resolver[q] = None
          /\ ~Ended(q) /\ task[m].from = target[q]
      BY <1>15, <2>1, AcceptedFacts DEF ResolveLocally
    <3>2. /\ promise' = [promise EXCEPT ![q] = "resolved"]
          /\ resolver' = [resolver EXCEPT ![q] = m]
          /\ clamped' = clamped \ {q}
          /\ UNCHANGED <<phase, target, outcome, overdue>>
      BY <1>15, <2>1 DEF ResolveLocally, ResolveWaiter
    <3>3. \A n \in Results : /\ task'[n].request = task[n].request
                             /\ task'[n].from = task[n].from
                             /\ task[n].step # "free" => task'[n].step # "free"
      BY <1>15, <2>1, FinishedKeeps DEF ResolveLocally, IInv
    <3>4. task[m].step # "free"
      BY <1>15 DEF ResolveLocally
    <3>5. outcome[q] = "none"
      BY <3>1 DEF IInv, CallsWellFormed, Ended
    <3>6. m # None
      BY RelayConstants
    <3>7. \A r \in Requests \ {q} : /\ promise'[r] = promise[r]
                                    /\ resolver'[r] = resolver[r]
      BY <3>1, <3>2 DEF IInv, TypeOK
    <3>8. promise'[q] = "resolved" /\ resolver'[q] = m
      BY <3>1, <3>2 DEF IInv, TypeOK
    <3> HIDE DEF q
    <3>9. /\ task'[m].request = q
          /\ task'[m].from = target[q]
          /\ task'[m].step # "free"
      <4>1. task'[m].request = q
        BY <3>3 DEF q
      <4>2. task'[m].from = target[q]
        BY <3>1, <3>3
      <4>3. task'[m].step # "free"
        BY <3>3, <3>4
      <4> QED
        BY <4>1, <4>2, <4>3
    <3>10. \A r \in Requests : resolver[r] \in Results \cup {None}
      BY DEF IInv, TypeOK
    <3> QED
      BY <3>1, <3>2, <3>3, <3>5, <3>6, <3>7, <3>8, <3>9, <3>10, RelayConstants
      DEF IInv, SettledByTarget, Ended
  <2>2. CASE ~Accepts(task[m].at, m)
    <3>1. \A n \in Results : /\ task'[n].request = task[n].request
                             /\ task'[n].from = task[n].from
                             /\ task[n].step # "free" => task'[n].step # "free"
      BY <1>15, <2>2 DEF ResolveLocally, IInv, TypeOK, Task
    <3> QED
      <4>1. UNCHANGED <<phase, target, promise, resolver, outcome, overdue,
                      clamped>>
        BY <1>15, <2>2 DEF ResolveLocally
      <4>2. \A r \in Requests : resolver[r] # None => resolver[r] \in Results
        BY DEF IInv, TypeOK
      <4>3. ASSUME NEW r \in Requests, promise[r] = "resolved"
            PROVE  /\ task'[resolver[r]].step # "free"
                   /\ task'[resolver[r]].request = r
                   /\ task'[resolver[r]].from = target[r]
        <5>1. resolver[r] \in Results
          BY <4>2, <4>3 DEF IInv, SettledByTarget
        <5> QED
          BY <3>1, <4>3, <5>1 DEF IInv, SettledByTarget
      <4> QED
        BY <4>1, <4>3 DEF IInv, SettledByTarget, Ended
  <2> QED
    BY <2>1, <2>2
<1>16. ASSUME NEW m \in Results, ReleaseCompleted(m)
      PROVE  SettledByTarget'
  BY <1>16 DEF IInv, TypeOK, Ended, SettledByTarget, ReleaseCompleted,
     Finished
<1>17. ASSUME NEW m \in Results, PublishResult(m)
      PROVE  SettledByTarget'
  BY <1>17 DEF IInv, TypeOK, Ended, SettledByTarget, PublishResult,
     PublishedResult, Finished
<1>18. ASSUME NEW m \in Results, ResultFails(m)
      PROVE  SettledByTarget'
  BY <1>18 DEF IInv, TypeOK, Ended, SettledByTarget, ResultFails,
     PublishedResult, Finished
<1>19. ASSUME NEW i \in Instances, NEW m \in Results, ReceiveRoutedResult(i,
             m)
      PROVE  SettledByTarget'
  <2>1. CASE Accepts(i, m)
    <3> DEFINE q == task[m].request
    <3>1. task[m].step # "free"
      BY <1>19 DEF ReceiveRoutedResult, IInv, FramesWellFormed
    <3>2. /\ q \in Requests /\ q \in waiters
          /\ promise[q] = "pending" /\ resolver[q] = None
          /\ ~Ended(q) /\ task[m].from = target[q]
      BY <2>1, <3>1, AcceptedFacts
    <3>3. /\ promise' = [promise EXCEPT ![q] = "resolved"]
          /\ resolver' = [resolver EXCEPT ![q] = m]
          /\ clamped' = clamped \ {q}
          /\ UNCHANGED <<phase, target, outcome, overdue, task>>
      BY <1>19, <2>1 DEF ReceiveRoutedResult, ResolveWaiter
    <3>4. outcome[q] = "none"
      BY <3>2 DEF IInv, CallsWellFormed, Ended
    <3>5. m # None
      BY RelayConstants
    <3> QED
      BY <3>1, <3>2, <3>3, <3>4, <3>5 DEF IInv, TypeOK, SettledByTarget, Ended
  <2>2. CASE ~Accepts(i, m)
    BY <1>19, <2>2 DEF ReceiveRoutedResult, IInv, TypeOK, SettledByTarget, Ended
  <2> QED
    BY <2>1, <2>2
<1>20. ASSUME NEW i \in Instances, Crash(i)
      PROVE  SettledByTarget'
  BY <1>20 DEF IInv, TypeOK, Ended, CallsWellFormed, FramesWellFormed,
     WaitersMatchCalls, SettledByTarget, Crash
<1>21. CASE UNCHANGED <<phase, target, promise, resolver, outcome, overdue,
   clamped, task>>
  BY <1>21 DEF IInv, TypeOK, Ended, SettledByTarget
<1> QED
  BY <1>1, <1>2, <1>3, <1>4, <1>5, <1>6, <1>7, <1>8, <1>9, <1>10, <1>11,
     <1>12, <1>13, <1>14, <1>15, <1>16, <1>17, <1>18, <1>19, <1>20, <1>21 DEF
     Next, CallStep, ResultStep, InstanceStep, vars, WaiterKeyExpires,
     CompletedExpires, Register, SocketCloses, ReceiveJob, ReleaseRouted,
     LoseRelease, SessionEnds, LoseMessage,
     CommandSentAgain, ResultSentAgain

LEMMA WaiterKeyNext == IInv /\ [Next]_vars => WaiterKeySet'
<1> SUFFICES ASSUME IInv, [Next]_vars PROVE WaiterKeySet'
  OBVIOUS
<1> USE DEF invokeVars, waiterVars, redisVars, busVars, linkVars, frameVars
<1>1. ASSUME NEW r \in Requests, NEW i \in Instances, NEW d \in Devices,
             Invoke(r, i, d)
      PROVE  WaiterKeySet'
  BY <1>1 DEF IInv, TypeOK, WaitersMatchCalls, Ended, WaiterKeySet, Invoke
<1>2. ASSUME NEW r \in Requests, WaiterTimesOut(r)
      PROVE  WaiterKeySet'
  BY <1>2 DEF IInv, TypeOK, WaiterKeySet, WaiterTimesOut
<1>3. ASSUME NEW r \in Requests, MarkWaiting(r)
      PROVE  WaiterKeySet'
  BY <1>3 DEF IInv, TypeOK, WaiterKeySet, MarkWaiting
<1>4. ASSUME NEW r \in Requests, FindHolder(r)
      PROVE  WaiterKeySet'
  BY <1>4 DEF IInv, TypeOK, WaiterKeySet, FindHolder
<1>5. ASSUME NEW r \in Requests, NoHolder(r)
      PROVE  WaiterKeySet'
  BY <1>5 DEF IInv, TypeOK, WaiterKeySet, NoHolder, GiveUp, CancelWaiter
<1>6. ASSUME NEW r \in Requests, DeliverLocalJob(r)
      PROVE  WaiterKeySet'
  BY <1>6 DEF IInv, TypeOK, WaiterKeySet, DeliverLocalJob
<1>7. ASSUME NEW r \in Requests, RefuseLocalJob(r)
      PROVE  WaiterKeySet'
  BY <1>7 DEF IInv, TypeOK, WaiterKeySet, RefuseLocalJob, GiveUp,
     CancelWaiter
<1>8. ASSUME NEW r \in Requests, ForwardJob(r)
      PROVE  WaiterKeySet'
  BY <1>8 DEF IInv, TypeOK, WaiterKeySet, ForwardJob, PublishedJob
<1>9. ASSUME NEW r \in Requests, DispatchFails(r)
      PROVE  WaiterKeySet'
  BY <1>9 DEF IInv, TypeOK, WaiterKeySet, DispatchFails, FailedCommand,
     PublishedJob, GiveUp, CancelWaiter
<1>10. ASSUME NEW r \in Requests, AwaitEnds(r)
      PROVE  WaiterKeySet'
  BY <1>10 DEF IInv, TypeOK, WaiterKeySet, AwaitEnds
<1>11. ASSUME NEW r \in Requests, WaiterKeyExpires(r)
      PROVE  WaiterKeySet'
  BY <1>11 DEF IInv, TypeOK, WaiterKeySet, WaiterKeyExpires
<1>12. ASSUME NEW m \in Results, ResolveLocally(m)
      PROVE  WaiterKeySet'
  BY <1>12 DEF IInv, TypeOK, WaiterKeySet, ResolveLocally, ResolveWaiter,
     Accepts, Finished
<1>13. ASSUME NEW i \in Instances, NEW m \in Results, ReceiveRoutedResult(i,
             m)
      PROVE  WaiterKeySet'
  BY <1>13 DEF IInv, TypeOK, WaiterKeySet, ReceiveRoutedResult,
     ResolveWaiter, Accepts
<1>14. ASSUME NEW i \in Instances, Crash(i)
      PROVE  WaiterKeySet'
  BY <1>14 DEF IInv, TypeOK, Ended, WaiterKeySet, Crash
<1>15. ASSUME NEW r \in Requests, CommandSentAgain(r)
      PROVE  WaiterKeySet'
  BY <1>15 DEF IInv, TypeOK, WaiterKeySet, CommandSentAgain
<1>16. CASE UNCHANGED <<phase, home, waiters, waiterKey>>
  BY <1>16 DEF IInv, TypeOK, WaiterKeySet
<1> QED
  BY <1>1, <1>2, <1>3, <1>4, <1>5, <1>6, <1>7, <1>8, <1>9, <1>10, <1>11,
     <1>12, <1>13, <1>14, <1>15, <1>16 DEF Next, CallStep, ResultStep, InstanceStep,
     vars, DeadlinePasses, CompletedExpires, ReceiveResult, LookUpWaiter,
     Finished, ClaimCompleted, ReleaseCompleted, PublishResult,
     PublishedResult, ResultFails, Register, SocketCloses, ReceiveJob,
     ReleaseRouted, LoseRelease, SessionEnds, LoseMessage,
     CommandSentAgain, ResultSentAgain

LEMMA AckOkNext == IInv /\ [Next]_vars => AckOkResolved'
<1> SUFFICES ASSUME IInv, [Next]_vars PROVE AckOkResolved'
  OBVIOUS
<1> USE DEF invokeVars, waiterVars, redisVars, busVars, linkVars, frameVars
<1>1. ASSUME NEW m \in Results, NEW r \in Requests, NEW c \in Clients, NEW i
             \in Instances, ReceiveResult(m, r, c, i)
      PROVE  AckOkResolved'
  BY <1>1 DEF IInv, TypeOK, FramesWellFormed, AckOkResolved, ReceiveResult
<1>2. ASSUME NEW m \in Results, LookUpWaiter(m)
      PROVE  AckOkResolved'
  BY <1>2 DEF IInv, TypeOK, FramesWellFormed, AckOkResolved, LookUpWaiter,
     Finished
<1>3. ASSUME NEW m \in Results, ClaimCompleted(m)
      PROVE  AckOkResolved'
  BY <1>3 DEF IInv, TypeOK, FramesWellFormed, AckOkResolved, ClaimCompleted,
     Finished
<1>4. ASSUME NEW m \in Results, ResolveLocally(m)
      PROVE  AckOkResolved'
  <2>1. CASE Accepts(task[m].at, m)
    <3> DEFINE q == task[m].request
    <3>1. q \in Requests /\ resolver[q] = None
      BY <1>4, <2>1, AcceptedFacts DEF ResolveLocally
    <3>2. resolver' = [resolver EXCEPT ![q] = m]
      BY <1>4, <2>1 DEF ResolveLocally, ResolveWaiter
    <3>3. \A n \in Results : /\ task'[n].request = task[n].request
                             /\ n # m => task'[n].ack = task[n].ack
      BY <1>4, <2>1, FinishedKeeps DEF ResolveLocally, IInv
    <3>4. \A n \in Results :
              task[n].ack = "ok" => /\ task[n].request \in Requests
                                    /\ resolver[task[n].request] = n
                                    /\ task[n].request # q
      BY <3>1, FrameFacts, RelayConstants DEF IInv, FramesWellFormed, AckOkResolved
    <3> QED
      BY <3>1, <3>2, <3>3, <3>4 DEF IInv, TypeOK, AckOkResolved
  <2>2. CASE ~Accepts(task[m].at, m)
    <3>1. \A n \in Results : task[n] \in Task
      BY DEF IInv, TypeOK
    <3>2. \A n \in Results : /\ task'[n].request = task[n].request
                             /\ task'[n].ack = task[n].ack
      BY <1>4, <2>2, <3>1 DEF ResolveLocally, IInv, TypeOK, Task
    <3> QED
      BY <1>4, <2>2, <3>2 DEF ResolveLocally, IInv, AckOkResolved
  <2> QED
    BY <2>1, <2>2
<1>5. ASSUME NEW m \in Results, ReleaseCompleted(m)
      PROVE  AckOkResolved'
  BY <1>5 DEF IInv, TypeOK, FramesWellFormed, AckOkResolved,
     ReleaseCompleted, Finished
<1>6. ASSUME NEW m \in Results, PublishResult(m)
      PROVE  AckOkResolved'
  BY <1>6 DEF IInv, TypeOK, FramesWellFormed, AckOkResolved, PublishResult,
     PublishedResult, Finished
<1>7. ASSUME NEW m \in Results, ResultFails(m)
      PROVE  AckOkResolved'
  BY <1>7 DEF IInv, TypeOK, FramesWellFormed, AckOkResolved, ResultFails,
     PublishedResult, Finished
<1>8. ASSUME NEW i \in Instances, NEW m \in Results, ReceiveRoutedResult(i,
             m)
      PROVE  AckOkResolved'
  <2>1. CASE Accepts(i, m)
    <3> DEFINE q == task[m].request
    <3>0. task[m].step # "free"
      BY <1>8 DEF ReceiveRoutedResult, IInv, FramesWellFormed
    <3>1. q \in Requests /\ resolver[q] = None
      BY <2>1, <3>0, AcceptedFacts
    <3>2. resolver' = [resolver EXCEPT ![q] = m] /\ task' = task
      BY <1>8, <2>1 DEF ReceiveRoutedResult, ResolveWaiter
    <3>3. \A n \in Results :
              task[n].ack = "ok" => /\ task[n].request \in Requests
                                    /\ resolver[task[n].request] = n
                                    /\ task[n].request # q
      BY <3>1, FrameFacts, RelayConstants DEF IInv, FramesWellFormed, AckOkResolved
    <3> QED
      BY <3>1, <3>2, <3>3 DEF IInv, TypeOK, AckOkResolved
  <2>2. CASE ~Accepts(i, m)
    BY <1>8, <2>2 DEF ReceiveRoutedResult, IInv, AckOkResolved
  <2> QED
    BY <2>1, <2>2
<1>9. ASSUME NEW i \in Instances, Crash(i)
      PROVE  AckOkResolved'
  BY <1>9 DEF IInv, TypeOK, FramesWellFormed, AckOkResolved, Crash
<1>10. CASE UNCHANGED <<resolver, task>>
  BY <1>10 DEF IInv, TypeOK, FramesWellFormed, AckOkResolved
<1> QED
  BY <1>1, <1>2, <1>3, <1>4, <1>5, <1>6, <1>7, <1>8, <1>9, <1>10 DEF Next,
     CallStep, ResultStep, InstanceStep, vars, Invoke, DeadlinePasses,
     WaiterTimesOut, MarkWaiting, FindHolder, NoHolder, GiveUp, CancelWaiter,
     DeliverLocalJob, RefuseLocalJob, ForwardJob, PublishedJob,
     DispatchFails, FailedCommand, AwaitEnds, WaiterKeyExpires,
     CompletedExpires, Register, SocketCloses, ReceiveJob, ReleaseRouted,
     LoseRelease, SessionEnds, LoseMessage,
     CommandSentAgain, ResultSentAgain

-----------------------------------------------------------------------------
(* The invariant and what follows from it.                                  *)

LEMMA InvInit == Init => IInv
<1> SUFFICES ASSUME Init PROVE IInv
  OBVIOUS
<1>1. TypeOK
  BY TypeInit
<1>2. CallsWellFormed /\ FramesWellFormed
  BY DEF Init, CallsWellFormed, FramesWellFormed
<1>3. WaitersMatchCalls /\ JobsOfOpenCalls
  BY DEF Init, WaitersMatchCalls, JobsOfOpenCalls, Ended
<1>4. SettledByTarget /\ WaiterKeySet /\ AckOkResolved
  BY DEF Init, SettledByTarget, WaiterKeySet, AckOkResolved, Ended
<1> QED
  BY <1>1, <1>2, <1>3, <1>4 DEF IInv

LEMMA InvNext == IInv /\ [Next]_vars => IInv'
<1> SUFFICES ASSUME IInv, [Next]_vars PROVE IInv'
  OBVIOUS
<1>1. TypeOK' /\ CallsWellFormed' /\ FramesWellFormed'
  BY TypeNext, CallsNext, FramesNext
<1>2. WaitersMatchCalls' /\ JobsOfOpenCalls' /\ SettledByTarget'
  BY WaitersNext, JobsNext, SettledNext
<1>3. WaiterKeySet' /\ AckOkResolved'
  BY WaiterKeyNext, AckOkNext
<1> QED
  BY <1>1, <1>2, <1>3 DEF IInv

\* The inductive invariant holds in every reachable state, whatever the number
\* of calls, devices, instances and result frames and whatever fails.
THEOREM InvariantHolds == Spec => []IInv
BY InvInit, InvNext, PTL DEF Spec

\* Every variable keeps its type.
THEOREM TypeCorrect == Spec => []TypeOK
<1>1. IInv => TypeOK
  BY DEF IInv
<1> QED
  BY <1>1, InvariantHolds, PTL

\* The waiters maps hold exactly the calls whose promise is still pending
\* (registerWaiter, cancelWaiter, resolveLocalWaiter, the waiter's timer).
THEOREM WaitersMatchCallsHolds == Spec => []WaitersMatchCalls
<1>1. IInv => WaitersMatchCalls
  BY DEF IInv
<1> QED
  BY <1>1, InvariantHolds, PTL

\* A job that has left its instance finds the waiter's routing key in place
\* for as long as the caller waits (markWaiting before dispatchJob).
THEOREM WaiterKeyBeforeJobHolds == Spec => []WaiterKeyBeforeJob
<1>1. IInv => WaiterKeyBeforeJob
  <2> SUFFICES ASSUME IInv, NEW r \in waiters,
                      r \in delivered \/ \E i \in Instances : <<i, r>> \in jobBus
               PROVE  waiterKey[r] = home[r]
    BY DEF WaiterKeyBeforeJob
  <2>1. r \in Requests
    BY DEF IInv, TypeOK
  <2>2. phase[r] \in {"routing", "waiting", "answered", "lost"}
    BY <2>1 DEF IInv, JobsOfOpenCalls
  <2>3. ~Ended(r)
    BY <2>1 DEF IInv, WaitersMatchCalls
  <2> QED
    BY <2>2, <2>3 DEF IInv, WaiterKeySet, Ended
<1> QED
  BY <1>1, InvariantHolds, PTL

\* A frame acknowledged "ok" is the one that settled its call, and the caller
\* is not told "timeout" or "unavailable" instead (resolveLocalWaiter against
\* the timer, cancelWaiter and the other frames).
THEOREM AckOkMeansAnsweredHolds == Spec => []AckOkMeansAnswered
<1>1. IInv => AckOkMeansAnswered
  <2> SUFFICES ASSUME IInv, NEW m \in Results, task[m].ack = "ok"
               PROVE  /\ resolver[task[m].request] = m
                      /\ phase[task[m].request] = "answered" =>
                             outcome[task[m].request] \in {"success", "error"}
    BY DEF AckOkMeansAnswered
  <2>1. task[m].step # "free"
    BY DEF IInv, FramesWellFormed
  <2>2. task[m].request \in Requests /\ task[m].request \in delivered
    BY <2>1, FrameFacts
  <2>3. resolver[task[m].request] = m
    BY DEF IInv, AckOkResolved
  <2>4. promise[task[m].request] = "resolved"
    BY <2>2, <2>3, RelayConstants DEF IInv, SettledByTarget
  <2>5. outcome[task[m].request] \notin {"timeout", "unavailable"}
    BY <2>2, <2>4 DEF IInv, SettledByTarget, JobsOfOpenCalls
  <2>6. phase[task[m].request] = "answered" => outcome[task[m].request] # "none"
    BY <2>2 DEF IInv, CallsWellFormed
  <2> QED
    BY <2>2, <2>3, <2>5, <2>6 DEF IInv, TypeOK
<1> QED
  BY <1>1, InvariantHolds, PTL

\* A call answered "unavailable" never reaches the device, not even later
\* (dispatchJob returning false against the published job).
THEOREM UnavailableMeansNotSentHolds == Spec => []UnavailableMeansNotSent
<1>1. IInv => UnavailableMeansNotSent
  BY DEF IInv, JobsOfOpenCalls, UnavailableMeansNotSent
<1> QED
  BY <1>1, InvariantHolds, PTL

\* No call is reported as timed out before its deadline, unless its timeout was
\* too long for setTimeout (the catch of dispatchAndAwaitResult reports every
\* rejection of the promise as "timeout").
THEOREM TimeoutMeansOverdueHolds == Spec => []TimeoutMeansOverdue
<1>1. IInv => TimeoutMeansOverdue
  BY DEF IInv, SettledByTarget, TimeoutMeansOverdue
<1> QED
  BY <1>1, InvariantHolds, PTL

-----------------------------------------------------------------------------
(* RpcRelay implements RpcCall: what a step does to the abstract call.       *)

\* Only the waiter's resolution changes the frame a promise resolved with.
LEMMA ResolverStable ==
    ASSUME IInv, [Next]_vars, NEW r \in Requests, r \notin waiters
    PROVE  resolver'[r] = resolver[r]
<1> USE DEF invokeVars, waiterVars, redisVars, busVars, linkVars, frameVars
<1>1. ASSUME NEW m \in Results, ResolveLocally(m) PROVE resolver'[r] = resolver[r]
  <2>1. CASE Accepts(task[m].at, m)
    BY <1>1, <2>1 DEF ResolveLocally, Accepts, ResolveWaiter, IInv, TypeOK
  <2>2. CASE ~Accepts(task[m].at, m)
    BY <1>1, <2>2 DEF ResolveLocally
  <2> QED
    BY <2>1, <2>2
<1>2. ASSUME NEW i \in Instances, NEW m \in Results, ReceiveRoutedResult(i, m)
      PROVE  resolver'[r] = resolver[r]
  <2>1. CASE Accepts(i, m)
    BY <1>2, <2>1 DEF ReceiveRoutedResult, Accepts, ResolveWaiter, IInv, TypeOK
  <2>2. CASE ~Accepts(i, m)
    BY <1>2, <2>2 DEF ReceiveRoutedResult
  <2> QED
    BY <2>1, <2>2
<1>3. CASE UNCHANGED resolver
  BY <1>3
<1> QED
  BY <1>1, <1>2, <1>3
  DEF Next, CallStep, ResultStep, InstanceStep, vars, Invoke, DeadlinePasses,
      WaiterTimesOut, MarkWaiting, FindHolder, NoHolder, GiveUp, CancelWaiter,
      DeliverLocalJob, RefuseLocalJob, ForwardJob, DispatchFails, AwaitEnds,
      WaiterKeyExpires, CompletedExpires, ReceiveResult, LookUpWaiter,
      ClaimCompleted, ReleaseCompleted, PublishResult, ResultFails, Register,
      SocketCloses, ReceiveJob, ReleaseRouted, LoseRelease, Crash,
      SessionEnds, LoseMessage,
     CommandSentAgain, ResultSentAgain

\* A frame keeps its sender for good.
LEMMA SenderStable ==
    ASSUME IInv, [Next]_vars, NEW n \in Results, task[n].step # "free"
    PROVE  task'[n].from = task[n].from
<1> USE DEF invokeVars, waiterVars, redisVars, busVars, linkVars, frameVars
<1>0. TypeOK /\ \A m \in Results : task[m] \in Task
  BY DEF IInv, TypeOK
<1>1. ASSUME NEW m \in Results, NEW r \in Requests, NEW c \in Clients,
             NEW i \in Instances, ReceiveResult(m, r, c, i)
      PROVE  task'[n].from = task[n].from
  BY <1>0, <1>1 DEF ReceiveResult, TypeOK
<1>2. ASSUME NEW m \in Results, ResultStep(m) PROVE task'[n].from = task[n].from
  <2>1. ASSUME NEW a, task' = Finished(m, a) PROVE task'[n].from = task[n].from
    BY <1>0, <2>1, FinishedKeeps
  <2>2. ASSUME NEW s, task' = [task EXCEPT ![m].step = s]
        PROVE  task'[n].from = task[n].from
    BY <1>0, <2>2 DEF TypeOK, Task
  <2>3. CASE LookUpWaiter(m)
    BY <1>0, <2>1, <2>3 DEF LookUpWaiter, TypeOK, Task
  <2>4. CASE ClaimCompleted(m)
    BY <2>1, <2>2, <2>4 DEF ClaimCompleted
  <2>5. CASE ResolveLocally(m)
    BY <2>1, <2>2, <2>5 DEF ResolveLocally
  <2>6. CASE ReleaseCompleted(m) \/ PublishResult(m) \/ ResultFails(m)
    BY <2>1, <2>6 DEF ReleaseCompleted, PublishResult, ResultFails
  <2>7. CASE ResultSentAgain(m)
    BY <2>7 DEF ResultSentAgain
  <2> QED
    BY <1>2, <2>3, <2>4, <2>5, <2>6, <2>7 DEF ResultStep
<1>3. ASSUME NEW i \in Instances, Crash(i) PROVE task'[n].from = task[n].from
  BY <1>0, <1>3 DEF Crash, Task
<1>4. CASE UNCHANGED task
  BY <1>4
<1> QED
  BY <1>1, <1>2, <1>3, <1>4
  DEF Next, CallStep, InstanceStep, vars, Invoke, DeadlinePasses,
      WaiterTimesOut, MarkWaiting, FindHolder, NoHolder, GiveUp, CancelWaiter,
      DeliverLocalJob, RefuseLocalJob, ForwardJob, DispatchFails, AwaitEnds,
      WaiterKeyExpires, CompletedExpires, Register, SocketCloses, ReceiveJob,
      ReceiveRoutedResult, ReleaseRouted, LoseRelease, SessionEnds, LoseMessage,
     CommandSentAgain, ResultSentAgain

\* A step changes the abstract answerer only where it changes the outcome.
LEMMA AnswererStable ==
    ASSUME IInv, [Next]_vars, NEW r \in Requests, outcome'[r] = outcome[r]
    PROVE  AnswererBar'[r] = AnswererBar[r]
<1>1. CASE outcome[r] # "success"
  BY <1>1 DEF AnswererBar
<1>2. CASE outcome[r] = "success"
  <2>1. promise[r] = "resolved" /\ phase[r] = "answered"
    BY <1>2 DEF IInv, SettledByTarget, CallsWellFormed
  <2>2. r \notin waiters
    BY <2>1 DEF IInv, WaitersMatchCalls, Ended
  <2>3. resolver[r] \in Results /\ task[resolver[r]].step # "free"
    BY <2>1 DEF IInv, TypeOK, SettledByTarget
  <2>4. resolver'[r] = resolver[r]
    BY <2>2, ResolverStable
  <2>5. task'[resolver[r]].from = task[resolver[r]].from
    BY <2>3, SenderStable
  <2> QED
    BY <1>2, <2>4, <2>5 DEF AnswererBar
<1> QED
  BY <1>1, <1>2

\* A step that changes neither the target, the abstract call state nor the
\* outcome of any call is a stuttering step of RpcCall.
LEMMA StutterStep ==
    ASSUME IInv, [Next]_vars, target' = target,
           \A r \in Requests : CallState(r)' = CallState(r),
           \A r \in Requests : outcome'[r] = outcome[r]
    PROVE  UNCHANGED Call!callVars
<1>1. CallBar' = CallBar
  BY DEF CallBar
<1>2. \A r \in Requests : AnswererBar'[r] = AnswererBar[r]
  BY AnswererStable
<1>3. AnswererBar' = AnswererBar
  BY <1>2 DEF AnswererBar
<1> QED
  BY <1>1, <1>3 DEF Call!callVars

\* A step that answers the open call r, with r's own device's result if it is
\* a success, is an Answer step of RpcCall.
LEMMA AnswerStep ==
    ASSUME IInv, [Next]_vars, NEW r \in Requests, target' = target,
           ~Ended(r), phase' = [phase EXCEPT ![r] = "answered"],
           NEW o, outcome' = [outcome EXCEPT ![r] = o],
           o = "success" =>
               /\ resolver'[r] \in Results
               /\ task'[resolver'[r]].from = target[r]
    PROVE  Call!Answer(r)
<1>1. /\ phase \in [Requests -> Phases] /\ DOMAIN outcome = Requests
      /\ outcome[r] = "none"
  BY DEF IInv, TypeOK, CallsWellFormed, Ended
<1>2. CallBar[r] = "open"
  BY DEF CallBar, CallState, Ended
<1>3. CallBar' = [CallBar EXCEPT ![r] = "answered"]
  BY <1>1 DEF CallBar, CallState
<1>4. \A q \in Requests \ {r} : AnswererBar'[q] = AnswererBar[q]
  BY <1>1, AnswererStable
<1>5. AnswererBar[r] = None
  BY <1>1 DEF AnswererBar
<1>6. AnswererBar'[r] \in {None, target[r]}
  BY <1>1 DEF AnswererBar
<1>7. AnswererBar' \in {AnswererBar, [AnswererBar EXCEPT ![r] = target[r]]}
  <2>1. CASE AnswererBar'[r] = None
    <3>1. \A q \in Requests : AnswererBar'[q] = AnswererBar[q]
      BY <1>4, <1>5, <2>1
    <3> QED
      BY <3>1 DEF AnswererBar
  <2>2. CASE AnswererBar'[r] = target[r]
    <3> DEFINE A == [AnswererBar EXCEPT ![r] = target[r]]
    <3>1. \A q \in Requests : AnswererBar'[q] = A[q]
      BY <1>4, <2>2 DEF AnswererBar
    <3>2. /\ AnswererBar' = [q \in Requests |-> AnswererBar'[q]]
          /\ A = [q \in Requests |-> A[q]]
      BY DEF AnswererBar
    <3> QED
      BY <3>1, <3>2
  <2> QED
    BY <1>6, <2>1, <2>2
<1> QED
  BY <1>2, <1>3, <1>7 DEF Call!Answer

LEMMA AbstractInit == Init => Call!Init
BY DEF Init, Call!Init, CallBar, CallState, AnswererBar

LEMMA AbstractNext == IInv /\ [Next]_vars => [Call!Next]_(Call!callVars)
<1> SUFFICES ASSUME IInv, [Next]_vars
             PROVE  Call!Next \/ UNCHANGED Call!callVars
  OBVIOUS
<1> USE DEF invokeVars, waiterVars, redisVars, busVars, linkVars, frameVars
<1>0. TypeOK
  BY DEF IInv
<1>1. ASSUME NEW r \in Requests, NEW i \in Instances, NEW d \in Devices,
             Invoke(r, i, d)
      PROVE  Call!Next
  <2>1. CallBar[r] = "idle" /\ CallBar' = [CallBar EXCEPT ![r] = "open"]
    BY <1>0, <1>1 DEF Invoke, TypeOK, CallBar, CallState
  <2>2. \A q \in Requests : AnswererBar'[q] = AnswererBar[q]
    BY <1>1, AnswererStable DEF Invoke
  <2>3. AnswererBar' = AnswererBar
    BY <2>2 DEF AnswererBar
  <2>4. Call!Open(r, d)
    BY <1>1, <2>1, <2>3 DEF Invoke, Call!Open
  <2> QED
    BY <2>4 DEF Call!Next
<1>2. ASSUME NEW r \in Requests, AwaitEnds(r) PROVE Call!Next
  <2>1. /\ target' = target /\ ~Ended(r)
        /\ phase' = [phase EXCEPT ![r] = "answered"]
    BY <1>2 DEF AwaitEnds, Ended
  <2> DEFINE o == IF promise[r] = "resolved" THEN "success" ELSE "timeout"
  <2>2. outcome' = [outcome EXCEPT ![r] = o]
    BY <1>2 DEF AwaitEnds
  <2>3. o = "success" => /\ resolver'[r] \in Results
                         /\ task'[resolver'[r]].from = target[r]
    BY <1>0, <1>2 DEF AwaitEnds, IInv, TypeOK, SettledByTarget
  <2>4. Call!Answer(r)
    BY <2>1, <2>2, <2>3, AnswerStep
  <2> QED
    BY <2>4 DEF Call!Next
<1>3. ASSUME NEW r \in Requests, NEW o \in {"unavailable", "error"},
             GiveUp(r, o), ~Ended(r)
      PROVE  Call!Next
  <2>1. Call!Answer(r)
    BY <1>3, AnswerStep DEF GiveUp
  <2> QED
    BY <2>1 DEF Call!Next
<1>4. ASSUME NEW r \in Requests,
             NoHolder(r) \/ RefuseLocalJob(r) \/ DispatchFails(r)
      PROVE  Call!Next
  BY <1>3, <1>4 DEF NoHolder, RefuseLocalJob, DispatchFails, FailedCommand, Ended
<1>5. ASSUME NEW i \in Instances, Crash(i)
      PROVE  Call!Next \/ UNCHANGED Call!callVars
  <2> DEFINE R == {r \in Requests : home[r] = i /\ ~Ended(r)}
  <2>1. \A q \in Requests : AnswererBar'[q] = AnswererBar[q]
    BY <1>5, AnswererStable DEF Crash
  <2>2. AnswererBar' = AnswererBar
    BY <2>1 DEF AnswererBar
  <2>3. CallBar' = [r \in Requests |-> IF r \in R THEN "lost" ELSE CallBar[r]]
    BY <1>5 DEF Crash, CallBar, CallState, Ended
  <2>4. \A r \in R : CallBar[r] = "open"
    BY DEF CallBar, CallState, Ended
  <2>5. CASE R = {}
    <3>1. CallBar' = CallBar
      BY <2>3, <2>5 DEF CallBar
    <3> QED
      BY <1>5, <2>2, <3>1 DEF Crash, Call!callVars
  <2>6. CASE R # {}
    <3>1. Call!Lose(R)
      BY <1>5, <2>2, <2>3, <2>4, <2>6 DEF Crash, Call!Lose
    <3> QED
      BY <3>1 DEF Call!Next
  <2> QED
    BY <2>5, <2>6
<1>6. ASSUME NEW r \in Requests,
             \/ MarkWaiting(r) \/ FindHolder(r)
             \/ DeliverLocalJob(r) \/ ForwardJob(r)
      PROVE  UNCHANGED Call!callVars
  <2>1. /\ target' = target /\ outcome' = outcome
        /\ phase[r] \in {"marking", "reading", "routing"}
        /\ \E s \in {"reading", "routing", "waiting"} :
               phase' = [phase EXCEPT ![r] = s]
    BY <1>6 DEF MarkWaiting, FindHolder, DeliverLocalJob, ForwardJob
  <2>2. \A q \in Requests : CallState(q)' = CallState(q)
    BY <1>0, <2>1 DEF TypeOK, CallState
  <2> QED
    BY <2>1, <2>2, StutterStep
<1>7. CASE UNCHANGED <<phase, target, outcome>>
  BY <1>7, StutterStep DEF CallState
<1> QED
  BY <1>1, <1>2, <1>4, <1>5, <1>6, <1>7
  DEF Next, CallStep, ResultStep, InstanceStep, vars, DeadlinePasses,
      WaiterTimesOut, WaiterKeyExpires, CompletedExpires, ReceiveResult,
      LookUpWaiter, ClaimCompleted, ResolveLocally, ReleaseCompleted,
      PublishResult, ResultFails, Register, SocketCloses, ReceiveJob,
      ReceiveRoutedResult, ReleaseRouted, LoseRelease, SessionEnds, LoseMessage,
     CommandSentAgain, ResultSentAgain

\* Every call is answered at most once, for good, and never with a result of
\* another device than the one it addressed: the relay, with its timers, Redis
\* keys, lost messages and crashes, implements RpcCall.
THEOREM Implements == Spec => ImplementsRpcCall
<1>1. Spec => []IInv
  BY InvariantHolds
<1> QED
  BY <1>1, AbstractInit, AbstractNext, PTL DEF Spec, ImplementsRpcCall, Call!Spec

-----------------------------------------------------------------------------
(* Every call ends.  An open call has at most five steps before it; no step *)
(* of anyone adds one, and each step of its own takes one away.             *)

\* What an open call has before it: its phases, its deadline, its waiter.
StepsLeft(r) ==
    (CASE phase[r] = "marking" -> 3 [] phase[r] = "reading" -> 2
       [] phase[r] = "routing" -> 1 [] OTHER -> 0)
    + (IF r \in overdue THEN 0 ELSE 1) + (IF r \in waiters THEN 1 ELSE 0)

LEMMA StepsLeftRange ==
    ASSUME NEW r \in Requests
    PROVE  StepsLeft(r) \in 0..5 /\ StepsLeft(r)' \in 0..5
BY DEF StepsLeft

\* An open call is always about to do something of its own.
LEMMA OpenCanGoOn ==
    ASSUME IInv, NEW r \in Requests, ~Ended(r) PROVE CallCanGoOn(r)
BY DEF IInv, TypeOK, Phases, WaitersMatchCalls, CallCanGoOn, Ended

\* An open call never runs out of moves, whatever messages were lost, commands
\* failed or instances died: a pending promise has a timer that can reject it.
THEOREM NeverStuckHolds == Spec /\ []GoingOnIsEnabled => []NeverStuck
<1>1. IInv /\ GoingOnIsEnabled => NeverStuck
  BY OpenCanGoOn DEF GoingOnIsEnabled, NeverStuck
<1> QED
  BY <1>1, InvariantHolds, PTL

\* No step of anyone sends an open call back, takes back its deadline or gives
\* it a second waiter.
LEMMA OpenCallForward ==
    ASSUME IInv, [Next]_vars, NEW r \in Requests, ~Ended(r)
    PROVE  /\ overdue \subseteq overdue'
           /\ r \in waiters' => r \in waiters
           /\ \/ phase'[r] = phase[r]
              \/ phase[r] = "marking" /\ phase'[r] = "reading"
              \/ phase[r] = "reading" /\ phase'[r] = "routing"
              \/ phase[r] = "routing" /\ phase'[r] = "waiting"
              \/ phase'[r] \in {"answered", "lost"}
<1> DEFINE Forward ==
        /\ overdue \subseteq overdue'
        /\ r \in waiters' => r \in waiters
        /\ \/ phase'[r] = phase[r]
           \/ phase[r] = "marking" /\ phase'[r] = "reading"
           \/ phase[r] = "reading" /\ phase'[r] = "routing"
           \/ phase[r] = "routing" /\ phase'[r] = "waiting"
           \/ phase'[r] \in {"answered", "lost"}
<1> USE DEF invokeVars, waiterVars, redisVars, busVars, linkVars, frameVars
<1>0. TypeOK
  BY DEF IInv
<1>1. ASSUME NEW q \in Requests, NEW i \in Instances, NEW d \in Devices,
             Invoke(q, i, d)
      PROVE  Forward
  BY <1>0, <1>1 DEF Invoke, TypeOK, Ended
<1>2. ASSUME NEW q \in Requests, \/ MarkWaiting(q) \/ FindHolder(q)
                                 \/ DeliverLocalJob(q) \/ ForwardJob(q)
                                 \/ AwaitEnds(q)
      PROVE  Forward
  BY <1>0, <1>2 DEF MarkWaiting, FindHolder, DeliverLocalJob, ForwardJob,
                    AwaitEnds, TypeOK
<1>3. ASSUME NEW q \in Requests,
             NoHolder(q) \/ RefuseLocalJob(q) \/ DispatchFails(q)
      PROVE  Forward
  BY <1>0, <1>3 DEF NoHolder, RefuseLocalJob, DispatchFails, GiveUp,
                    CancelWaiter, TypeOK
<1>4. ASSUME NEW q \in Requests, DeadlinePasses(q) \/ WaiterTimesOut(q)
      PROVE  Forward
  BY <1>4 DEF DeadlinePasses, WaiterTimesOut
<1>5. ASSUME NEW m \in Results, ResolveLocally(m)
      PROVE  Forward
  BY <1>5 DEF ResolveLocally, ResolveWaiter
<1>6. ASSUME NEW i \in Instances, NEW m \in Results, ReceiveRoutedResult(i, m)
      PROVE  Forward
  BY <1>6 DEF ReceiveRoutedResult, ResolveWaiter
<1>7. ASSUME NEW i \in Instances, Crash(i)
      PROVE  Forward
  BY <1>0, <1>7 DEF Crash, TypeOK
<1>8. CASE UNCHANGED <<phase, overdue, waiters>>
  BY <1>8
<1> QED
  BY <1>1, <1>2, <1>3, <1>4, <1>5, <1>6, <1>7, <1>8
  DEF Next, CallStep, ResultStep, InstanceStep, vars, WaiterKeyExpires,
      CompletedExpires, ReceiveResult, LookUpWaiter, ClaimCompleted,
      ReleaseCompleted, PublishResult, ResultFails, Register, SocketCloses,
      ReceiveJob, ReleaseRouted, LoseRelease, SessionEnds, LoseMessage,
     CommandSentAgain, ResultSentAgain

\* So the number of steps before it never grows,
LEMMA StepsLeftKept ==
    ASSUME IInv, [Next]_vars, NEW r \in Requests, ~Ended(r)
    PROVE  Ended(r)' \/ StepsLeft(r)' <= StepsLeft(r)
BY OpenCallForward DEF IInv, TypeOK, Phases, Ended, StepsLeft

\* and the call's own steps lower it or end the call.
LEMMA StepsLeftFalls ==
    ASSUME IInv, [Next]_vars, NEW r \in Requests, ~Ended(r), CallProgress(r)
    PROVE  Ended(r)' \/ StepsLeft(r)' < StepsLeft(r)
<1> USE DEF invokeVars, waiterVars, redisVars, busVars, linkVars, frameVars
<1>0. TypeOK
  BY DEF IInv
<1>1. ASSUME NoHolder(r) \/ RefuseLocalJob(r) \/ AwaitEnds(r)
      PROVE  Ended(r)'
  BY <1>0, <1>1 DEF NoHolder, RefuseLocalJob, GiveUp, AwaitEnds, Ended, TypeOK
<1>2. ASSUME \/ MarkWaiting(r) \/ FindHolder(r)
             \/ DeliverLocalJob(r) \/ ForwardJob(r)
      PROVE  StepsLeft(r)' < StepsLeft(r)
  BY <1>0, <1>2 DEF MarkWaiting, FindHolder, DeliverLocalJob, ForwardJob,
                    StepsLeft, TypeOK
<1>3. ASSUME DeadlinePasses(r) \/ WaiterTimesOut(r)
      PROVE  StepsLeft(r)' < StepsLeft(r)
  BY <1>0, <1>3 DEF DeadlinePasses, WaiterTimesOut, StepsLeft, TypeOK
<1> QED
  BY <1>1, <1>2, <1>3 DEF CallProgress

\* One round of the argument: with k steps before it, a call ends or gets to
\* fewer.
LEMMA OneStepLess ==
    ASSUME NEW r \in Requests, NEW k \in 0..5
    PROVE  [][Next]_vars /\ []IInv /\ WF_vars(CallProgress(r))
             /\ [](CallCanGoOn(r) => ENABLED <<CallProgress(r)>>_vars)
           => (~Ended(r) /\ StepsLeft(r) <= k ~> Ended(r) \/ StepsLeft(r) < k)
<1> DEFINE P == ~Ended(r) /\ StepsLeft(r) <= k
           Q == Ended(r) \/ StepsLeft(r) < k
<1>1. IInv /\ P /\ [Next]_vars => P' \/ Q'
  BY StepsLeftKept, StepsLeftRange
<1>2. IInv /\ P /\ <<Next /\ CallProgress(r)>>_vars => Q'
  BY StepsLeftFalls, StepsLeftRange
<1>3. IInv /\ P => CallCanGoOn(r)
  BY OpenCanGoOn
<1> QED
  BY <1>1, <1>2, <1>3, PTL

\* Every call that is opened ends, whatever fails: fairness of the call's own
\* steps suffices, once their guards are granted to enable them.
THEOREM EveryCallEndsHolds == FairSpec /\ []GoingOnIsEnabled => EveryCallEnds
<1>1. FairSpec => []IInv /\ [][Next]_vars
  BY InvariantHolds, PTL DEF FairSpec, Spec
<1>2. ASSUME NEW r \in Requests
      PROVE  FairSpec /\ []GoingOnIsEnabled
               => (phase[r] = "marking" ~> Ended(r))
  <2>1. FairSpec => CallFair(r)
    BY DEF FairSpec
  <2>2. GoingOnIsEnabled
          => (CallCanGoOn(r) => ENABLED <<CallProgress(r)>>_vars)
    BY DEF GoingOnIsEnabled
  <2> DEFINE AtMost(k) == StepsLeft(r) <= k
             Fewer(k) == StepsLeft(r) < k
             Falls(k) == ~Ended(r) /\ AtMost(k) ~> Ended(r) \/ Fewer(k)
  <2>3. ASSUME NEW k \in 0..5
        PROVE  FairSpec /\ []GoingOnIsEnabled => Falls(k)
    BY <1>1, <2>1, <2>2, OneStepLess, PTL DEF CallFair
  <2>4. /\ AtMost(5) /\ ~Fewer(0)
        /\ Fewer(5) => AtMost(4)
        /\ Fewer(4) => AtMost(3)
        /\ Fewer(3) => AtMost(2)
        /\ Fewer(2) => AtMost(1)
        /\ Fewer(1) => AtMost(0)
    BY StepsLeftRange
  <2>5. phase[r] = "marking" => ~Ended(r)
    BY DEF Ended
  <2> HIDE DEF Falls
  <2>6. FairSpec /\ []GoingOnIsEnabled
          => Falls(0) /\ Falls(1) /\ Falls(2) /\ Falls(3) /\ Falls(4) /\ Falls(5)
    BY <2>3
  <2> HIDE DEF AtMost, Fewer
  <2> QED
    BY <2>4, <2>5, <2>6, PTL DEF Falls
<1> QED
  BY <1>2 DEF EveryCallEnds
=============================================================================
