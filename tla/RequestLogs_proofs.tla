------------------------- MODULE RequestLogs_proofs -------------------------
(* Proofs about RequestLogs, for any requests, attempts, stalls, rebuilds    *)
(* and kinds of failure.                                                    *)
EXTENDS RequestLogs, Integers, TLAPS

LEMMA LogInvInit == Init => LogInv
BY LogsConstants
DEF Init, LogInv, TypeOK, JobsInOrder, CountedAfterInsert, CountExplained,
    StoredBeforeMark, NothingVanishes, IndexedHasPayload, PayloadStates,
    AttemptSteps, DeadSteps

LEMMA LogInvNext == LogInv /\ [Next]_vars => LogInv'
<1> SUFFICES ASSUME LogInv, [Next]_vars PROVE LogInv'
  OBVIOUS
<1> USE DEF LogInv, TypeOK, JobsInOrder, CountedAfterInsert, CountExplained,
            StoredBeforeMark, NothingVanishes, IndexedHasPayload,
            PayloadStates, AttemptSteps, DeadSteps,
            apiVars, jobVars, deadVars, countVars, upkeepVars
<1>1. ASSUME NEW r \in Requests, Api(r) PROVE LogInv'
  <2>1. CASE Enqueue(r)
    BY <2>1, LogsConstants DEF Enqueue
  <2>2. CASE AddStored(r)
    BY <2>2, LogsConstants DEF AddStored
  <2>3. CASE EnqueueAnswered(r)
    BY <2>3, LogsConstants DEF EnqueueAnswered
  <2>4. CASE EnqueueFails(r)
    BY <2>4, LogsConstants DEF EnqueueFails
  <2>5. CASE WriteFallback(r)
    BY <2>5, LogsConstants DEF WriteFallback, Fallback, Inserted, InsertUncounted
  <2>6. CASE RecordLost(r)
    BY <2>6, LogsConstants DEF RecordLost
  <2> QED
    BY <1>1, <2>1, <2>2, <2>3, <2>4, <2>5, <2>6 DEF Api
<1>2. ASSUME NEW r \in Requests, Worker(r) PROVE LogInv'
  <2>1. CASE Take(r)
    BY <2>1, LogsConstants DEF Take, Goes
  <2>2. CASE WriteSpine(r)
    BY <2>2, LogsConstants DEF WriteSpine, Goes, AfterSpine, Inserted
  <2>3. CASE RecordCompletion(r)
    BY <2>3, LogsConstants DEF RecordCompletion, Goes
  <2>4. CASE RecordMonthlyUsage(r)
    BY <2>4, LogsConstants DEF RecordMonthlyUsage, Goes
  <2>5. CASE IndexPayload(r)
    BY <2>5, LogsConstants DEF IndexPayload, Goes, Stored
  <2>6. CASE MarkIndexed(r)
    BY <2>6, LogsConstants DEF MarkIndexed, Goes, Marked
  <2>7. CASE Finish(r)
    BY <2>7, LogsConstants DEF Finish, Goes
  <2>8. CASE MarkFailed(r)
    BY <2>8, LogsConstants DEF MarkFailed, Goes, Marked
  <2>9. CASE Bury(r)
    BY <2>9, LogsConstants DEF Bury, Goes, DeadLetter
  <2> QED
    BY <1>2, <2>1, <2>2, <2>3, <2>4, <2>5, <2>6, <2>7, <2>8, <2>9 DEF Worker
<1>3. ASSUME NEW r \in Requests, Failure(r) PROVE LogInv'
  <2>1. CASE AttemptFails(r)
    BY <2>1, LogsConstants DEF AttemptFails, MayRetry, EndUncounted
  <2>2. CASE Stall(r)
    BY <2>2, LogsConstants DEF Stall, EndUncounted
  <2>3. CASE StalledOut(r)
    BY <2>3, LogsConstants DEF StalledOut, EndUncounted
  <2>4. CASE FailedHandlerDies(r)
    BY <2>4, LogsConstants DEF FailedHandlerDies
  <2>5. CASE DeadFails(r)
    BY <2>5, LogsConstants DEF DeadFails
  <2>6. CASE DeadStall(r)
    BY <2>6, LogsConstants DEF DeadStall
  <2>7. CASE DeadStalledOut(r)
    BY <2>7, LogsConstants DEF DeadStalledOut
  <2> QED
    BY <1>3, <2>1, <2>2, <2>3, <2>4, <2>5, <2>6, <2>7 DEF Failure
<1>4. ASSUME NEW r \in Requests, DeadWorker(r) PROVE LogInv'
  <2>1. CASE DeadSpine(r)
    BY <2>1, LogsConstants DEF DeadSpine, DeadGoes, Inserted, InsertUncounted
  <2>2. CASE DeadIndex(r)
    BY <2>2, LogsConstants DEF DeadIndex, DeadGoes, Stored
  <2>3. CASE DeadMark(r)
    BY <2>3, LogsConstants DEF DeadMark, DeadGoes, Marked
  <2>4. CASE DeadFinish(r)
    BY <2>4, LogsConstants DEF DeadFinish, DeadGoes
  <2> QED
    BY <1>4, <2>1, <2>2, <2>3, <2>4 DEF DeadWorker
<1>5. CASE Repair
  <2>1. CASE SelectStale
    BY <2>1 DEF SelectStale
  <2>2. ASSUME NEW r \in Requests, RepairStalePending(r) PROVE LogInv'
    BY <2>2 DEF RepairStalePending, Repaired, Marked
  <2> QED
    BY <1>5, <2>1, <2>2 DEF Repair
<1>6. CASE RebuildRecent
  BY <1>6, LogsConstants DEF RebuildRecent
<1>7. CASE UNCHANGED vars
  BY <1>7 DEF vars
<1>8. ASSUME NEW r \in Requests, TrimRow(r) PROVE LogInv'
  BY <1>8 DEF TrimRow
<1> QED
  BY <1>1, <1>2, <1>3, <1>4, <1>5, <1>6, <1>7, <1>8 DEF Next

\* What every step relies on: jobs are delivered in order, counted after the
\* insert and stored before they are marked, whatever fails and however often.
THEOREM LogInvariantHolds == Spec => []LogInv
BY LogInvInit, LogInvNext, PTL DEF Spec

\* Every variable keeps its type: in particular no job is tried more often than
\* its queue allows.
THEOREM TypeCorrect == Spec => []TypeOK
<1>1. LogInv => TypeOK
  BY DEF LogInv
<1> QED
  BY <1>1, LogInvariantHolds, PTL

\* No retry, stalled job or fallback row counts a call twice (process).
THEOREM CountExplainedHolds == Spec => []CountExplained
<1>1. LogInv => CountExplained
  BY DEF LogInv
<1> QED
  BY <1>1, LogInvariantHolds, PTL

\* A row that says "indexed" has its payload in Manticore (indexPayload before
\* markState in both processors).
THEOREM IndexedHasPayloadHolds == Spec => []IndexedHasPayload
<1>1. LogInv => IndexedHasPayload
  BY DEF LogInv
<1> QED
  BY <1>1, LogInvariantHolds, PTL

-----------------------------------------------------------------------------
(* Progress.  The provers have no rules for ENABLED, so that a step whose     *)
(* guard holds can be taken, WorkGoesOn, is a hypothesis.                     *)

\* A row that is selected stays selected until it is marked.
LEMMA SelectedUntilMarked ==
    ASSUME LogInv, [Next]_vars, NEW r \in Requests, r \in repairs
    PROVE  r \in repairs' \/ spine'[r] # "pending"
<1> USE DEF LogInv, TypeOK, apiVars, jobVars, deadVars, countVars, upkeepVars
<1>1. ASSUME NEW q \in Requests, RepairStalePending(q)
      PROVE  r \in repairs' \/ spine'[r] # "pending"
  BY <1>1 DEF RepairStalePending, Repaired, Marked
<1>2. CASE SelectStale
  BY <1>2 DEF SelectStale
<1>3. CASE UNCHANGED repairs
  BY <1>3
<1> QED
  BY <1>1, <1>2, <1>3
  DEF Next, Repair, Api, Worker, Failure, DeadWorker, Enqueue, AddStored,
      EnqueueAnswered, EnqueueFails, WriteFallback, RecordLost, Take, WriteSpine,
      RecordCompletion, RecordMonthlyUsage, IndexPayload, MarkIndexed, Finish,
      AttemptFails, Stall, StalledOut, MarkFailed, Bury, FailedHandlerDies,
      DeadSpine, DeadIndex, DeadMark, DeadFinish, DeadGoes, DeadFails, DeadStall,
      DeadStalledOut, RebuildRecent, TrimRow, vars

\* No row stays pending for ever: the schedule of the repair selects it, and the
\* repair marks what it selected (repairStalePending).
THEOREM PendingEndsHolds == FairSpec /\ []WorkGoesOn => PendingEnds
<1>1. ASSUME NEW r \in Requests
      PROVE  FairSpec /\ []WorkGoesOn
               => (spine[r] = "pending" ~> spine[r] # "pending")
  <2> DEFINE Pending == spine[r] = "pending"
             Selected == r \in repairs
  <2>1. LogInv /\ Selected /\ [Next]_vars => Selected' \/ ~Pending'
    BY SelectedUntilMarked
  <2>2. LogInv /\ Pending /\ <<SelectStale>>_vars => Selected' \/ ~Pending'
    BY DEF SelectStale
  <2>3. LogInv /\ Selected /\ <<RepairStalePending(r)>>_vars => ~Pending'
    BY DEF LogInv, TypeOK, RepairStalePending, Repaired, Marked
  <2>4. WorkGoesOn
          => /\ Pending /\ ~Selected => ENABLED <<SelectStale>>_vars
             /\ Selected => ENABLED <<RepairStalePending(r)>>_vars
    BY DEF WorkGoesOn
  <2>5. FairSpec => RepairFair(r)
    BY DEF FairSpec
  <2>6. (spine[r] # "pending") <=> ~Pending
    OBVIOUS
  <2> HIDE DEF Pending, Selected
  <2>7. FairSpec /\ []WorkGoesOn => (Pending ~> ~Pending)
    BY <2>1, <2>2, <2>3, <2>4, <2>5, LogInvariantHolds, PTL
    DEF FairSpec, Spec, RepairFair, ScheduleFair
  <2> QED
    BY <2>6, <2>7, PTL
<1> QED
  BY <1>1 DEF PendingEnds

-----------------------------------------------------------------------------
(* Jobs and dead letters come to their end.  The argument counts the attempts *)
(* and stalls a job has left, so it is for the limits of the code.            *)

CodeLimits == Attempts <= 3 /\ DeadAttempts <= 5 /\ Stalls <= 1

JobOf(r) == <<step[r], tries[r], stalls[r], dead[r], deadTries[r]>>

\* Only its own worker, its failures and the queue that stores it move a job.
LEMMA WhoMovesAJob ==
    ASSUME LogInv, [Next]_vars, NEW r \in Requests
    PROVE  \/ AddStored(r) \/ Worker(r) \/ Failure(r) \/ DeadWorker(r)
           \/ UNCHANGED JobOf(r)
<1> USE DEF LogInv, TypeOK, JobOf, apiVars, jobVars, deadVars, countVars, upkeepVars
<1>1. ASSUME NEW q \in Requests, q # r, Api(q)
      PROVE  UNCHANGED JobOf(r)
  BY <1>1
  DEF Api, Enqueue, AddStored, EnqueueAnswered, EnqueueFails, WriteFallback,
      RecordLost
<1>2. ASSUME NEW q \in Requests, q # r, Worker(q)
      PROVE  UNCHANGED JobOf(r)
  BY <1>2
  DEF Worker, Take, WriteSpine, RecordCompletion, RecordMonthlyUsage,
      IndexPayload, MarkIndexed, Finish, MarkFailed, Bury, Goes
<1>3. ASSUME NEW q \in Requests, q # r, Failure(q) \/ DeadWorker(q)
      PROVE  UNCHANGED JobOf(r)
  BY <1>3
  DEF Failure, AttemptFails, Stall, StalledOut, FailedHandlerDies, DeadFails,
      DeadStall, DeadStalledOut, DeadWorker, DeadSpine, DeadIndex, DeadMark,
      DeadFinish, DeadGoes
<1>4. CASE Api(r) /\ ~AddStored(r)
  BY <1>4
  DEF Api, Enqueue, EnqueueAnswered, EnqueueFails, WriteFallback, RecordLost
<1>5. CASE Repair \/ RebuildRecent \/ UNCHANGED vars
  BY <1>5 DEF Repair, SelectStale, RepairStalePending, RebuildRecent, vars
<1>6. ASSUME NEW q \in Requests, TrimRow(q)
      PROVE  UNCHANGED JobOf(r)
  BY <1>6 DEF TrimRow
<1> QED
  BY <1>1, <1>2, <1>3, <1>4, <1>5, <1>6 DEF Next

\* A payload and a job that went without a dead letter stay what they are.
LEMMA Kept ==
    ASSUME LogInv, [Next]_vars, NEW r \in Requests
    PROVE  /\ r \in payload => r \in payload'
           /\ r \in dropped => r \in dropped'
<1> DEFINE Keeps == /\ r \in payload => r \in payload'
                    /\ r \in dropped => r \in dropped'
<1> USE DEF LogInv, TypeOK, apiVars, jobVars, deadVars, countVars, upkeepVars
<1>1. ASSUME NEW q \in Requests, Api(q)
      PROVE  Keeps
  BY <1>1
  DEF Api, Enqueue, AddStored, EnqueueAnswered, EnqueueFails, WriteFallback,
      RecordLost
<1>2. ASSUME NEW q \in Requests, Worker(q)
      PROVE  Keeps
  BY <1>2
  DEF Worker, Take, WriteSpine, RecordCompletion, RecordMonthlyUsage,
      IndexPayload, MarkIndexed, Finish, MarkFailed, Bury, Stored
<1>3. ASSUME NEW q \in Requests, Failure(q) \/ DeadWorker(q)
      PROVE  Keeps
  BY <1>3
  DEF Failure, AttemptFails, Stall, StalledOut, FailedHandlerDies, DeadFails,
      DeadStall, DeadStalledOut, DeadWorker, DeadSpine, DeadIndex, DeadMark,
      DeadFinish, DeadGoes, Stored
<1>4. CASE Repair \/ RebuildRecent \/ UNCHANGED vars
  BY <1>4 DEF Repair, SelectStale, RepairStalePending, RebuildRecent, vars
<1>5. ASSUME NEW q \in Requests, TrimRow(q)
      PROVE  Keeps
  BY <1>5 DEF TrimRow
<1> QED
  BY <1>1, <1>2, <1>3, <1>4, <1>5 DEF Next

\* A dead letter is settled when the payload is there or all was tried.
Settled(r) == r \in payload \cup dropped \/ deadTries[r] = DeadAttempts

Buried(r) == dead[r] \in {"spine", "index"} /\ ~Settled(r)

\* The steps a dead letter can take before it is settled.
DeadLeft(r) ==
    2 * (DeadAttempts - deadTries[r] + Stalls - stalls[r])
    + (IF dead[r] = "spine" THEN 1 ELSE 0)

LEMMA DeadLeftRange ==
    ASSUME CodeLimits, LogInv, NEW r \in Requests, Buried(r)
    PROVE  DeadLeft(r) \in 0..13
<1> DEFINE t == deadTries[r]
           n == stalls[r]
<1>1. t \in 0..DeadAttempts /\ n \in 0..Stalls
  BY DEF LogInv, TypeOK
<1> HIDE DEF t, n
<1>2. 2 * (DeadAttempts - t + Stalls - n) \in 0..12
  BY <1>1, LogsConstants DEF CodeLimits
<1> QED
  BY <1>2 DEF DeadLeft, t, n

\* Nothing gives a dead letter more steps, and its worker's steps use them up.
LEMMA DeadLetterForward ==
    ASSUME LogInv, LogInv', [Next]_vars, NEW r \in Requests, Buried(r)
    PROVE  /\ Settled(r)' \/ (Buried(r)' /\ DeadLeft(r)' <= DeadLeft(r))
           /\ DeadWorker(r) => Settled(r)' \/ DeadLeft(r)' < DeadLeft(r)
<1> USE DEF LogInv, TypeOK, JobsInOrder, Buried, Settled, DeadLeft, AttemptSteps,
            DeadSteps, apiVars, jobVars, deadVars, countVars, upkeepVars
<1>0. step[r] = "gone"
  OBVIOUS
<1>1. CASE DeadWorker(r)
  BY <1>1, LogsConstants
  DEF DeadWorker, DeadSpine, DeadIndex, DeadMark, DeadFinish, DeadGoes, Stored
<1>2. CASE Failure(r)
  <2>1. CASE DeadFails(r)
    BY <2>1, LogsConstants, <1>0 DEF DeadFails, DeadWorker, DeadSpine, DeadIndex, DeadMark,
      DeadFinish, DeadGoes
  <2>2. CASE DeadStall(r) \/ DeadStalledOut(r)
    BY <2>2, LogsConstants, <1>0
    DEF DeadStall, DeadStalledOut, DeadWorker, DeadSpine, DeadIndex, DeadMark,
      DeadFinish, DeadGoes
  <2> QED
    BY <1>0, <1>2, <2>1, <2>2
    DEF Failure, AttemptFails, Stall, StalledOut, FailedHandlerDies
<1>3. CASE UNCHANGED JobOf(r)
  BY <1>3, LogsConstants, Kept
  DEF JobOf, DeadWorker, DeadSpine, DeadIndex, DeadMark, DeadFinish, DeadGoes
<1> QED
  BY <1>0, <1>1, <1>2, <1>3, WhoMovesAJob
  DEF AddStored, Worker, Take, WriteSpine, RecordCompletion, RecordMonthlyUsage,
      IndexPayload, MarkIndexed, Finish, MarkFailed, Bury, Goes

LEMMA DeadLeftIsInteger ==
    ASSUME NEW r \in Requests
    PROVE  /\ LogInv => DeadLeft(r) \in Int
           /\ LogInv' => DeadLeft(r)' \in Int
<1>1. \A a, b \in Nat : 2 * (DeadAttempts - a + Stalls - b) \in Int
  BY LogsConstants
<1> QED
  BY <1>1, LogsConstants DEF LogInv, TypeOK, DeadLeft

\* One round: with at most k steps left a dead letter is settled or has fewer.
LEMMA DeadLetterRound ==
    ASSUME NEW r \in Requests, NEW k \in 0..13
    PROVE  [][Next]_vars /\ []LogInv /\ DeadWorkerFair(r) /\ []WorkGoesOn
           => (Buried(r) /\ DeadLeft(r) <= k
                 ~> Settled(r) \/ (Buried(r) /\ DeadLeft(r) < k))
<1> DEFINE P == Buried(r) /\ DeadLeft(r) <= k
           Q == Settled(r) \/ (Buried(r) /\ DeadLeft(r) < k)
<1>1. LogInv /\ LogInv' /\ P /\ [Next]_vars => P' \/ Q'
  BY DeadLetterForward, DeadLeftIsInteger
<1>2. LogInv /\ LogInv' /\ P /\ <<Next /\ DeadWorker(r)>>_vars => Q'
  BY DeadLetterForward, DeadLeftIsInteger
<1>3. WorkGoesOn /\ P => ENABLED <<DeadWorker(r)>>_vars
  BY DEF WorkGoesOn, Buried, DeadSteps
<1> QED
  BY <1>1, <1>2, <1>3, PTL DEF DeadWorkerFair

LEMMA DeadLetterSettles ==
    ASSUME CodeLimits, NEW r \in Requests
    PROVE  FairSpec /\ []WorkGoesOn => (Buried(r) ~> Settled(r))
<1>1. FairSpec => DeadWorkerFair(r)
  BY DEF FairSpec
<1> DEFINE AtMost(k) == Buried(r) /\ DeadLeft(r) <= k
           Fewer(k) == Buried(r) /\ DeadLeft(r) < k
           Falls(k) == AtMost(k) ~> Settled(r) \/ Fewer(k)
<1>2. ASSUME NEW k \in 0..13
      PROVE  FairSpec /\ []WorkGoesOn => Falls(k)
  BY <1>1, DeadLetterRound, LogInvariantHolds, PTL DEF FairSpec, Spec
<1>3. LogInv => /\ Buried(r) => AtMost(13)
                /\ Fewer(13) => AtMost(12)
                /\ Fewer(12) => AtMost(11)
                /\ Fewer(11) => AtMost(10)
                /\ Fewer(10) => AtMost(9)
                /\ Fewer(9) => AtMost(8)
                /\ Fewer(8) => AtMost(7)
                /\ Fewer(7) => AtMost(6)
                /\ Fewer(6) => AtMost(5)
                /\ Fewer(5) => AtMost(4)
                /\ Fewer(4) => AtMost(3)
                /\ Fewer(3) => AtMost(2)
                /\ Fewer(2) => AtMost(1)
                /\ Fewer(1) => AtMost(0)
                /\ ~Fewer(0)
  BY DeadLeftRange
<1> HIDE DEF Falls
<1>4. FairSpec /\ []WorkGoesOn
        => /\ Falls(0) /\ Falls(1) /\ Falls(2) /\ Falls(3) /\ Falls(4)
           /\ Falls(5) /\ Falls(6) /\ Falls(7) /\ Falls(8) /\ Falls(9)
           /\ Falls(10) /\ Falls(11) /\ Falls(12) /\ Falls(13)
  BY <1>2
<1> HIDE DEF AtMost, Fewer
<1> QED
  BY <1>3, <1>4, LogInvariantHolds, PTL DEF Falls, FairSpec

\* The last failure's handler sends the dead letter, or dies.
LEMMA HandlerForward ==
    ASSUME LogInv, LogInv', [Next]_vars, NEW r \in Requests
    PROVE  /\ step[r] = "markFailed"
                => step'[r] \in {"markFailed", "bury"} \/ Settled(r)'
           /\ step[r] = "markFailed" /\ Worker(r) => step'[r] = "bury"
           /\ step[r] = "bury"
                => step'[r] = "bury" \/ Buried(r)' \/ Settled(r)'
           /\ step[r] = "bury" /\ Worker(r) => Buried(r)' \/ Settled(r)'
<1> USE DEF LogInv, TypeOK, JobsInOrder, Buried, Settled, AttemptSteps, DeadSteps,
            apiVars, jobVars, deadVars, countVars, upkeepVars
<1> SUFFICES ASSUME step[r] \in {"markFailed", "bury"}
             PROVE  \/ /\ step[r] = "markFailed"
                       /\ Worker(r) => step'[r] = "bury"
                       /\ step'[r] \in {"markFailed", "bury"} \/ Settled(r)'
                    \/ /\ step[r] = "bury"
                       /\ Worker(r) => Buried(r)' \/ Settled(r)'
                       /\ step'[r] = "bury" \/ Buried(r)' \/ Settled(r)'
  OBVIOUS
<1>1. CASE Worker(r)
  BY <1>1
  DEF Worker, Take, WriteSpine, RecordCompletion, RecordMonthlyUsage,
      IndexPayload, MarkIndexed, Finish, MarkFailed, Bury, Goes, DeadLetter
<1>2. CASE FailedHandlerDies(r)
  BY <1>2
  DEF FailedHandlerDies, Worker, Take, WriteSpine, RecordCompletion,
      RecordMonthlyUsage, IndexPayload, MarkIndexed, Finish, MarkFailed, Bury,
      Goes
<1>3. CASE UNCHANGED JobOf(r)
  BY <1>3
  DEF JobOf, Worker, Take, WriteSpine, RecordCompletion, RecordMonthlyUsage,
      IndexPayload, MarkIndexed, Finish, MarkFailed, Bury, Goes
<1> QED
  BY <1>1, <1>2, <1>3, WhoMovesAJob
  DEF AddStored, Failure, AttemptFails, Stall, StalledOut, DeadFails, DeadStall,
      DeadStalledOut, DeadWorker, DeadSpine, DeadIndex, DeadMark, DeadFinish,
      DeadGoes

LEMMA FailedSettles ==
    ASSUME CodeLimits, NEW r \in Requests
    PROVE  FairSpec /\ []WorkGoesOn
             => (step[r] \in {"markFailed", "bury"} ~> Settled(r))
<1> DEFINE Failing == step[r] = "markFailed"
           Burying == step[r] = "bury"
<1>1. LogInv /\ LogInv' /\ [Next]_vars
        => /\ Failing => Failing' \/ Burying' \/ Settled(r)'
           /\ Failing /\ <<Worker(r)>>_vars => Burying'
           /\ Burying => Burying' \/ Buried(r)' \/ Settled(r)'
           /\ Burying /\ <<Worker(r)>>_vars => Buried(r)' \/ Settled(r)'
  BY HandlerForward
<1>2. WorkGoesOn => (Failing \/ Burying => ENABLED <<Worker(r)>>_vars)
  BY DEF WorkGoesOn
<1>3. FairSpec => WorkerFair(r)
  BY DEF FairSpec
<1>4. step[r] \in {"markFailed", "bury"} => Failing \/ Burying
  OBVIOUS
<1> HIDE DEF Failing, Burying
<1> QED
  BY <1>1, <1>2, <1>3, <1>4, DeadLetterSettles, LogInvariantHolds, PTL
  DEF FairSpec, Spec, WorkerFair

\* A row the exhausted job left "failed" gets its payload from the dead letter,
\* unless that is used up or was never sent (DeadLetterProcessor.process).
THEOREM FailedIsCompensatedHolds ==
    ASSUME CodeLimits
    PROVE  FairSpec /\ []WorkGoesOn => FailedIsCompensated
<1>1. ASSUME NEW r \in Requests
      PROVE  FairSpec /\ []WorkGoesOn
               => (spine[r] = "failed"
                     ~> (r \in payload \/ deadTries[r] = DeadAttempts \/ r \in dropped))
  <2>1. LogInv /\ spine[r] = "failed"
          => step[r] \in {"markFailed", "bury"} \/ Buried(r) \/ Settled(r)
    BY DEF LogInv, TypeOK, DeadSteps, StoredBeforeMark, NothingVanishes, Buried,
           Settled
  <2>2. Settled(r) <=> (r \in payload \/ deadTries[r] = DeadAttempts \/ r \in dropped)
    BY DEF Settled
  <2> QED
    BY <2>1, <2>2, FailedSettles, DeadLetterSettles, LogInvariantHolds, PTL
    DEF FairSpec
<1> QED
  BY <1>1 DEF FailedIsCompensated

\* A job that has yet to write its row, and the steps it can take before it has
\* or its attempts are used up.
Trying(r) == step[r] \in {"waiting", "spine"} /\ spine[r] = "none"

Over(r) == spine[r] # "none" \/ r \in dropped \/ step[r] = "markFailed"

AttemptsLeft(r) ==
    2 * (Attempts - tries[r] + Stalls - stalls[r])
    + (IF step[r] = "waiting" THEN 1 ELSE 0)

LEMMA AttemptsLeftRange ==
    ASSUME CodeLimits, LogInv, NEW r \in Requests, Trying(r)
    PROVE  AttemptsLeft(r) \in 0..9
<1> DEFINE t == tries[r]
           n == stalls[r]
<1>1. t \in 0..Attempts /\ n \in 0..Stalls
  BY DEF LogInv, TypeOK
<1> HIDE DEF t, n
<1>2. 2 * (Attempts - t + Stalls - n) \in 0..8
  BY <1>1, LogsConstants DEF CodeLimits
<1> QED
  BY <1>2 DEF AttemptsLeft, t, n

LEMMA AttemptsLeftIsInteger ==
    ASSUME NEW r \in Requests
    PROVE  /\ LogInv => AttemptsLeft(r) \in Int
           /\ LogInv' => AttemptsLeft(r)' \in Int
<1>1. \A a, b \in Nat : 2 * (Attempts - a + Stalls - b) \in Int
  BY LogsConstants
<1> QED
  BY <1>1, LogsConstants DEF LogInv, TypeOK, AttemptsLeft

LEMMA TryingForward ==
    ASSUME LogInv, LogInv', [Next]_vars, NEW r \in Requests, Trying(r)
    PROVE  /\ Over(r)' \/ (Trying(r)' /\ AttemptsLeft(r)' <= AttemptsLeft(r))
           /\ Worker(r) => Over(r)' \/ AttemptsLeft(r)' < AttemptsLeft(r)
<1> USE DEF LogInv, TypeOK, JobsInOrder, Trying, Over, AttemptsLeft, AttemptSteps,
            DeadSteps, apiVars, jobVars, deadVars, countVars, upkeepVars
<1>1. CASE Worker(r)
  BY <1>1, LogsConstants
  DEF Worker, Take, WriteSpine, RecordCompletion, RecordMonthlyUsage,
      IndexPayload, MarkIndexed, Finish, MarkFailed, Bury, Goes, Inserted
<1>2. CASE Failure(r)
  <2>1. CASE AttemptFails(r)
    BY <2>1, LogsConstants
    DEF AttemptFails, MayRetry, Worker, Take, WriteSpine, RecordCompletion,
        RecordMonthlyUsage, IndexPayload, MarkIndexed, Finish, MarkFailed, Bury,
        Goes
  <2>2. CASE Stall(r) \/ StalledOut(r)
    BY <2>2, LogsConstants
    DEF Stall, StalledOut, Worker, Take, WriteSpine, RecordCompletion,
        RecordMonthlyUsage, IndexPayload, MarkIndexed, Finish, MarkFailed, Bury,
        Goes
  <2> QED
    BY <1>2, <2>1, <2>2
    DEF Failure, FailedHandlerDies, DeadFails, DeadStall, DeadStalledOut
<1>3. CASE UNCHANGED JobOf(r)
  <2>1. ~Worker(r)
    BY <1>3
    DEF JobOf, Worker, Take, WriteSpine, AfterSpine, RecordCompletion,
        RecordMonthlyUsage, IndexPayload, MarkIndexed, Finish, MarkFailed, Bury,
        Goes
  <2> QED
    BY <1>3, <2>1, LogsConstants DEF JobOf
<1> QED
  BY <1>1, <1>2, <1>3, WhoMovesAJob
  DEF AddStored, DeadWorker, DeadSpine, DeadIndex, DeadMark, DeadFinish, DeadGoes

\* One round: with at most k steps left a job is over with its row or has fewer.
LEMMA AttemptRound ==
    ASSUME NEW r \in Requests, NEW k \in 0..9
    PROVE  [][Next]_vars /\ []LogInv /\ WorkerFair(r) /\ []WorkGoesOn
           => (Trying(r) /\ AttemptsLeft(r) <= k
                 ~> Over(r) \/ (Trying(r) /\ AttemptsLeft(r) < k))
<1> DEFINE P == Trying(r) /\ AttemptsLeft(r) <= k
           Q == Over(r) \/ (Trying(r) /\ AttemptsLeft(r) < k)
<1>1. LogInv /\ LogInv' /\ P /\ [Next]_vars => P' \/ Q'
  BY TryingForward, AttemptsLeftIsInteger
<1>2. LogInv /\ LogInv' /\ P /\ <<Next /\ Worker(r)>>_vars => Q'
  BY TryingForward, AttemptsLeftIsInteger
<1>3. WorkGoesOn /\ P => ENABLED <<Worker(r)>>_vars
  BY DEF WorkGoesOn, Trying, AttemptSteps
<1> QED
  BY <1>1, <1>2, <1>3, PTL DEF WorkerFair

LEMMA AttemptsEnd ==
    ASSUME CodeLimits, NEW r \in Requests
    PROVE  FairSpec /\ []WorkGoesOn => (Trying(r) ~> Over(r))
<1>1. FairSpec => WorkerFair(r)
  BY DEF FairSpec
<1> DEFINE AtMost(k) == Trying(r) /\ AttemptsLeft(r) <= k
           Fewer(k) == Trying(r) /\ AttemptsLeft(r) < k
           Falls(k) == AtMost(k) ~> Over(r) \/ Fewer(k)
<1>2. ASSUME NEW k \in 0..9
      PROVE  FairSpec /\ []WorkGoesOn => Falls(k)
  BY <1>1, AttemptRound, LogInvariantHolds, PTL DEF FairSpec, Spec
<1>3. LogInv => /\ Trying(r) => AtMost(9)
                /\ Fewer(9) => AtMost(8)
                /\ Fewer(8) => AtMost(7)
                /\ Fewer(7) => AtMost(6)
                /\ Fewer(6) => AtMost(5)
                /\ Fewer(5) => AtMost(4)
                /\ Fewer(4) => AtMost(3)
                /\ Fewer(3) => AtMost(2)
                /\ Fewer(2) => AtMost(1)
                /\ Fewer(1) => AtMost(0)
                /\ ~Fewer(0)
  BY AttemptsLeftRange
<1> HIDE DEF Falls
<1>4. FairSpec /\ []WorkGoesOn
        => /\ Falls(0) /\ Falls(1) /\ Falls(2) /\ Falls(3) /\ Falls(4)
           /\ Falls(5) /\ Falls(6) /\ Falls(7) /\ Falls(8) /\ Falls(9)
  BY <1>2
<1> HIDE DEF AtMost, Fewer
<1> QED
  BY <1>3, <1>4, LogInvariantHolds, PTL DEF Falls, FairSpec

\* A finished record leaves a row, over exhausted attempts and dead letters,
\* unless the dead letter is used up or was never sent (enqueueRequestLog).
THEOREM EveryCallLoggedHolds ==
    ASSUME CodeLimits
    PROVE  FairSpec /\ []WorkGoesOn => EveryCallLogged
<1>1. ASSUME NEW r \in Requests
      PROVE  FairSpec /\ []WorkGoesOn
               => (record[r] = "logged"
                     ~> (spine[r] # "none" \/ r \in trimmed
                           \/ deadTries[r] = DeadAttempts \/ r \in dropped))
  <2> DEFINE Logged == \/ spine[r] # "none"
                       \/ r \in trimmed
                       \/ deadTries[r] = DeadAttempts
                       \/ r \in dropped
  <2>0. Logged <=> (spine[r] # "none" \/ r \in trimmed
                      \/ deadTries[r] = DeadAttempts \/ r \in dropped)
    OBVIOUS
  <2>1. LogInv /\ record[r] = "logged"
          => \/ Logged \/ Trying(r) \/ step[r] \in {"markFailed", "bury"}
             \/ Buried(r) \/ Settled(r)
    BY DEF LogInv, TypeOK, AttemptSteps, DeadSteps, CountedAfterInsert,
           StoredBeforeMark, NothingVanishes, JobsInOrder, Trying, Buried, Settled
  <2>2. LogInv /\ Settled(r) => Logged
    BY DEF LogInv, StoredBeforeMark, Settled
  <2>3. Over(r) => Logged \/ step[r] \in {"markFailed", "bury"}
    BY DEF Over
  <2> HIDE DEF Logged
  <2>4. FairSpec /\ []WorkGoesOn => (record[r] = "logged" ~> Logged)
    BY <2>1, <2>2, <2>3, AttemptsEnd, FailedSettles, DeadLetterSettles,
       LogInvariantHolds, PTL
    DEF FairSpec
  <2> QED
    BY <2>0, <2>4, PTL
<1> QED
  BY <1>1 DEF EveryCallLogged
=============================================================================
