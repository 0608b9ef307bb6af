---------------------------- MODULE RequestLogs ----------------------------
(***************************************************************************)
(* The record of one finished RPC on the cold path: the API instance       *)
(* enqueues it, or writes a bare row itself when the queue does not answer *)
(* in time; the worker's attempts insert the row (the spine), count the    *)
(* completion, store the payload in Manticore and mark the row; exhausted  *)
(* jobs go to the dead-letter queue; the maintenance job repairs rows left *)
(* pending and deletes old ones, and a starting worker recounts the        *)
(* metrics from the spine.                                                 *)
(*                                                                         *)
(* A step is one command to PostgreSQL, Manticore or BullMQ.  BullMQ is    *)
(* external: it delivers a job at least once, counts failed attempts, runs *)
(* a job again whose worker died, and reports the last failure.            *)
(***************************************************************************)
EXTENDS Naturals

CONSTANTS
    Requests,
    Attempts,      \* attempts of a log job (3 in the code)
    DeadAttempts,  \* attempts of a dead-letter job (5 in the code)
    Stalls,        \* how often a job may be run again after its worker died
                   \* (maxStalledCount, 1 in the code)
    Rebuilds,      \* how often a worker starts: a bound
    Faults         \* what goes wrong: a subset of FaultKinds

\* The queue does not answer; an attempt rejects; an API instance dies before
\* the record is anywhere; the handler of the last failure dies; a job stalls
\* more often than BullMQ allows.
FaultKinds == {"queue", "attempt", "api", "handler", "stalled"}

ASSUME LogsConstants ==
    /\ Attempts \in Nat \ {0}
    /\ DeadAttempts \in Nat \ {0}
    /\ Stalls \in Nat
    /\ Rebuilds \in Nat
    /\ Faults \subseteq FaultKinds

VARIABLES
    record,   \* record[r]: what enqueueRequestLog has come to
    add,      \* add[r]: the Queue.add command of r
    step,     \* step[r]: next step of the log job's attempt or its end
    tries,    \* tries[r]: failed attempts
    stalls,   \* stalls[r]: times the present job was run again for a dead worker
    dead,     \* dead[r]: next step of the dead-letter job
    deadTries,  \* deadTries[r]: its failed attempts
    dropped,  \* history: requests whose last job went without a dead letter
    spine,    \* spine[r]: payload_state of the request_logs row, or "none"
    payload,  \* requests whose payload document is in Manticore
    counted,  \* counted[r]: what r adds to the daily metrics
    monthly,  \* monthly[r]: what r adds to its token's monthly usage
    uncounted,  \* history: rows whose completion nobody is going to add
    recounted,  \* history: rows a rebuild counted before their completion was added
    trimmed,  \* history: requests whose row the retention has deleted
    repairs,  \* rows repairStalePending selected and has yet to mark
    rebuilds  \* rebuilds of the metrics so far

apiVars == <<record, add>>
jobVars == <<step, tries, stalls>>
countVars == <<counted, monthly, uncounted, recounted>>
deadVars == <<dead, deadTries, dropped>>
upkeepVars == <<repairs, rebuilds, trimmed>>
vars == <<apiVars, jobVars, deadVars, spine, payload, countVars, upkeepVars>>

-----------------------------------------------------------------------------
PayloadStates == {"pending", "indexed", "failed", "unavailable"}
AttemptSteps == {"spine", "count", "month", "index", "mark", "finish"}
DeadSteps == {"spine", "index", "mark", "finish"}

TypeOK ==
    /\ record \in [Requests -> {"open", "racing", "degraded", "logged", "lost"}]
    /\ add \in [Requests -> {"none", "sent", "stored", "refused"}]
    /\ step \in [Requests -> AttemptSteps \cup
                     {"none", "waiting", "markFailed", "bury", "gone"}]
    /\ tries \in [Requests -> 0 .. Attempts]
    /\ stalls \in [Requests -> 0 .. Stalls]
    /\ dead \in [Requests -> DeadSteps \cup {"none", "gone"}]
    /\ deadTries \in [Requests -> 0 .. DeadAttempts]
    /\ dropped \subseteq Requests
    /\ spine \in [Requests -> PayloadStates \cup {"none"}]
    /\ payload \subseteq Requests
    /\ counted \in [Requests -> Nat]
    /\ monthly \in [Requests -> Nat]
    /\ uncounted \subseteq Requests
    /\ recounted \subseteq Requests
    /\ trimmed \subseteq Requests
    /\ repairs \subseteq Requests
    /\ rebuilds \in 0 .. Rebuilds

Init ==
    /\ record = [r \in Requests |-> "open"]
    /\ add = [r \in Requests |-> "none"]
    /\ step = [r \in Requests |-> "none"]
    /\ tries = [r \in Requests |-> 0]
    /\ stalls = [r \in Requests |-> 0]
    /\ dead = [r \in Requests |-> "none"]
    /\ deadTries = [r \in Requests |-> 0]
    /\ dropped = {}
    /\ spine = [r \in Requests |-> "none"]
    /\ payload = {}
    /\ counted = [r \in Requests |-> 0]
    /\ monthly = [r \in Requests |-> 0]
    /\ uncounted = {}
    /\ recounted = {}
    /\ trimmed = {}
    /\ repairs = {}
    /\ rebuilds = 0

\* writeSpine: INSERT ... ON CONFLICT DO NOTHING.
Inserted(r, state) == [spine EXCEPT ![r] = IF @ = "none" THEN state ELSE @]

\* Only process adds a completion, in the attempt that inserts the row: another's
\* insert, or the end of that attempt before recordCompletion, leaves it out.
InsertUncounted(r) ==
    uncounted' = IF spine[r] = "none" THEN uncounted \cup {r} ELSE uncounted
EndUncounted(r) ==
    uncounted' = IF step[r] = "count" THEN uncounted \cup {r} ELSE uncounted

\* markState: UPDATE of the row, if there is one.
Marked(r, state) == [spine EXCEPT ![r] = IF @ = "none" THEN @ ELSE state]

-----------------------------------------------------------------------------
(* enqueueRequestLog.                                                       *)

Enqueue(r) ==
    /\ record[r] = "open"
    /\ record' = [record EXCEPT ![r] = "racing"]
    /\ add' = [add EXCEPT ![r] = "sent"]
    /\ UNCHANGED <<jobVars, deadVars, spine, payload, countVars, upkeepVars>>

\* The queue stores the job, in time or after the race is lost.
AddStored(r) ==
    /\ add[r] = "sent"
    /\ add' = [add EXCEPT ![r] = "stored"]
    /\ step' = [step EXCEPT ![r] = "waiting"]
    /\ UNCHANGED <<record, tries, stalls, deadVars, spine, payload, countVars, upkeepVars>>

EnqueueAnswered(r) ==
    /\ record[r] = "racing" /\ add[r] = "stored"
    /\ record' = [record EXCEPT ![r] = "logged"]
    /\ UNCHANGED <<add, jobVars, deadVars, spine, payload, countVars, upkeepVars>>

\* Three seconds pass, or the command rejects.
EnqueueFails(r) ==
    /\ "queue" \in Faults
    /\ record[r] = "racing"
    /\ record' = [record EXCEPT ![r] = "degraded"]
    /\ \/ UNCHANGED add
       \/ add[r] = "sent" /\ add' = [add EXCEPT ![r] = "refused"]
    /\ UNCHANGED <<jobVars, deadVars, spine, payload, countVars, upkeepVars>>

\* Slip: a failed enqueue is only logged.
FallbackSkipped(r) == UNCHANGED spine

\* The bare row that stands in for the record.
Fallback(r) == spine' = Inserted(r, "unavailable")

WriteFallback(r) ==
    /\ record[r] = "degraded"
    /\ Fallback(r)
    /\ record' = [record EXCEPT ![r] = "logged"]
    /\ InsertUncounted(r)
    /\ UNCHANGED <<add, jobVars, deadVars, payload, counted, monthly, recounted,
                   upkeepVars>>

\* The instance dies, or the fallback fails too; a command in flight may live.
RecordLost(r) ==
    /\ "api" \in Faults
    /\ record[r] \in {"racing", "degraded"}
    /\ record' = [record EXCEPT ![r] = "lost"]
    /\ \/ UNCHANGED add
       \/ add[r] = "sent" /\ add' = [add EXCEPT ![r] = "refused"]
    /\ UNCHANGED <<jobVars, deadVars, spine, payload, countVars, upkeepVars>>

-----------------------------------------------------------------------------
(* RequestLogProcessor.                                                     *)

Goes(r, from, to) == step[r] = from /\ step' = [step EXCEPT ![r] = to]

Take(r) ==
    /\ Goes(r, "waiting", "spine")
    /\ UNCHANGED <<apiVars, tries, stalls, deadVars, spine, payload, countVars, upkeepVars>>

\* Slip: every attempt counts.
AlwaysCount(r) == "count"

\* Only the attempt that inserts the row counts the completion.
AfterSpine(r) == IF spine[r] = "none" THEN "count" ELSE "index"

WriteSpine(r) ==
    /\ Goes(r, "spine", AfterSpine(r))
    /\ spine' = Inserted(r, "pending")
    /\ UNCHANGED <<apiVars, tries, stalls, deadVars, payload, countVars, upkeepVars>>

\* recordCompletion, one transaction.
RecordCompletion(r) ==
    /\ Goes(r, "count", "month")
    /\ counted' = [counted EXCEPT ![r] = @ + 1]
    /\ UNCHANGED <<apiVars, tries, stalls, deadVars, spine, payload, monthly, uncounted,
                   recounted, upkeepVars>>

\* recordMonthlyUsage, for calls made with an access token.
RecordMonthlyUsage(r) ==
    /\ Goes(r, "month", "index")
    /\ monthly' \in {monthly, [monthly EXCEPT ![r] = @ + 1]}
    /\ UNCHANGED <<apiVars, tries, stalls, deadVars, spine, payload, counted, uncounted,
                   recounted, upkeepVars>>

\* Slip: an answer that is not ok is taken for success.
RefusedUnnoticed(r) == payload' \in {payload, payload \cup {r}}

\* indexPayload: a replace by an id derived from r, so a retry stores it again.
Stored(r) == payload' = payload \cup {r}

IndexPayload(r) ==
    /\ Goes(r, "index", "mark")
    /\ Stored(r)
    /\ UNCHANGED <<apiVars, tries, stalls, deadVars, spine, countVars, upkeepVars>>

MarkIndexed(r) ==
    /\ Goes(r, "mark", "finish")
    /\ spine' = Marked(r, "indexed")
    /\ UNCHANGED <<apiVars, tries, stalls, deadVars, payload, countVars, upkeepVars>>

\* The job is completed and removed.
Finish(r) ==
    /\ Goes(r, "finish", "gone")
    /\ UNCHANGED <<apiVars, tries, stalls, deadVars, spine, payload, countVars, upkeepVars>>

MayRetry(r) == tries[r] + 1 < Attempts

\* A step rejects: what it may have done is what the next step starts from.
AttemptFails(r) ==
    /\ "attempt" \in Faults
    /\ step[r] \in AttemptSteps
    /\ tries' = [tries EXCEPT ![r] = @ + 1]
    /\ step' = [step EXCEPT ![r] =
           IF MayRetry(r) THEN "waiting" ELSE "markFailed"]
    /\ EndUncounted(r)
    /\ UNCHANGED <<apiVars, stalls, deadVars, spine, payload, counted, monthly, recounted,
                   upkeepVars>>

\* The worker dies; the stalled job is run again.
Stall(r) ==
    /\ step[r] \in AttemptSteps
    /\ stalls[r] < Stalls
    /\ stalls' = [stalls EXCEPT ![r] = @ + 1]
    /\ step' = [step EXCEPT ![r] = "waiting"]
    /\ EndUncounted(r)
    /\ UNCHANGED <<apiVars, tries, deadVars, spine, payload, counted, monthly, recounted,
                   upkeepVars>>

\* Stalled too often: BullMQ drops the job and onFailed, which sees attempts
\* left, returns.
StalledOut(r) ==
    /\ "stalled" \in Faults
    /\ step[r] \in AttemptSteps
    /\ stalls[r] = Stalls
    /\ step' = [step EXCEPT ![r] = "gone"]
    /\ dropped' = dropped \cup {r}
    /\ EndUncounted(r)
    /\ UNCHANGED <<apiVars, tries, stalls, dead, deadTries, spine, payload, counted,
                   monthly, recounted, upkeepVars>>

\* onFailed of the last attempt.
MarkFailed(r) ==
    /\ Goes(r, "markFailed", "bury")
    /\ spine' \in {Marked(r, "failed"), spine}  \* .catch(() => undefined)
    /\ UNCHANGED <<apiVars, tries, stalls, deadVars, payload, countVars, upkeepVars>>

\* Slip: the exhausted job is dropped.
DroppedJob(r) == "none"

DeadLetter(r) == "spine"

\* A new job: its worker has not died yet.
Bury(r) ==
    /\ Goes(r, "bury", "gone")
    /\ dead' = [dead EXCEPT ![r] = DeadLetter(r)]
    /\ stalls' = [stalls EXCEPT ![r] = 0]
    /\ UNCHANGED <<apiVars, deadTries, dropped, tries, spine, payload, countVars,
                   upkeepVars>>

\* The worker dies in onFailed: BullMQ has already removed the job.
FailedHandlerDies(r) ==
    /\ "handler" \in Faults
    /\ step[r] \in {"markFailed", "bury"}
    /\ step' = [step EXCEPT ![r] = "gone"]
    /\ dropped' = dropped \cup {r}
    /\ UNCHANGED <<apiVars, tries, stalls, dead, deadTries, spine, payload, countVars,
                   upkeepVars>>

-----------------------------------------------------------------------------
(* DeadLetterProcessor.                                                     *)

DeadGoes(r, from, to) ==
    /\ dead[r] = from
    /\ dead' = [dead EXCEPT ![r] = to]
    /\ UNCHANGED <<deadTries, dropped>>

DeadSpine(r) ==
    /\ DeadGoes(r, "spine", "index")
    /\ spine' = Inserted(r, "failed")
    /\ InsertUncounted(r)
    /\ UNCHANGED <<apiVars, jobVars, payload, counted, monthly, recounted, upkeepVars>>

DeadIndex(r) ==
    /\ DeadGoes(r, "index", "mark")
    /\ Stored(r)
    /\ UNCHANGED <<apiVars, jobVars, spine, countVars, upkeepVars>>

DeadMark(r) ==
    /\ DeadGoes(r, "mark", "finish")
    /\ spine' = Marked(r, "indexed")
    /\ UNCHANGED <<apiVars, jobVars, payload, countVars, upkeepVars>>

DeadFinish(r) ==
    /\ DeadGoes(r, "finish", "gone")
    /\ UNCHANGED <<apiVars, jobVars, spine, payload, countVars, upkeepVars>>

\* A step rejects; the job is retried until its attempts are used up.
DeadFails(r) ==
    /\ "attempt" \in Faults
    /\ dead[r] \in DeadSteps
    /\ deadTries' = [deadTries EXCEPT ![r] = @ + 1]
    /\ dead' = [dead EXCEPT ![r] =
           IF deadTries[r] + 1 < DeadAttempts THEN "spine" ELSE "gone"]
    /\ UNCHANGED <<apiVars, jobVars, dropped, spine, payload, countVars, upkeepVars>>

\* Its worker dies: the job is run again, or dropped when that was once too often.
DeadStall(r) ==
    /\ dead[r] \in DeadSteps
    /\ stalls[r] < Stalls
    /\ stalls' = [stalls EXCEPT ![r] = @ + 1]
    /\ dead' = [dead EXCEPT ![r] = "spine"]
    /\ UNCHANGED <<apiVars, step, tries, deadTries, dropped, spine, payload, countVars,
                   upkeepVars>>

DeadStalledOut(r) ==
    /\ "stalled" \in Faults
    /\ dead[r] \in DeadSteps
    /\ stalls[r] = Stalls
    /\ dead' = [dead EXCEPT ![r] = "gone"]
    /\ dropped' = dropped \cup {r}
    /\ UNCHANGED <<apiVars, jobVars, deadTries, spine, payload, countVars, upkeepVars>>

-----------------------------------------------------------------------------
(* Maintenance and start of a worker.                                       *)

\* findStalePending: rows still pending ten minutes after they were written.
\* The next repair may start on another worker before this one is through.
SelectStale ==
    /\ repairs' = repairs \cup {r \in Requests : spine[r] = "pending"}
    /\ repairs' # repairs
    /\ UNCHANGED <<apiVars, jobVars, deadVars, spine, payload, countVars, rebuilds,
                   trimmed>>

\* Slip: the row that is selected is left as it is.
LeftPending(r) == UNCHANGED spine

Repaired(r) == spine' = Marked(r, "unavailable")

RepairStalePending(r) ==
    /\ r \in repairs
    /\ repairs' = repairs \ {r}
    /\ Repaired(r)
    /\ UNCHANGED <<apiVars, jobVars, deadVars, payload, countVars, rebuilds, trimmed>>

\* rebuildRecent, one transaction: the metrics are what the spine says.
RebuildRecent ==
    /\ rebuilds < Rebuilds
    /\ rebuilds' = rebuilds + 1
    /\ counted' = [r \in Requests |-> IF spine[r] = "none" THEN 0 ELSE 1]
    /\ uncounted' = {}
    /\ recounted' = {r \in Requests : step[r] = "count" /\ spine[r] # "none"}
    /\ UNCHANGED <<apiVars, jobVars, deadVars, spine, payload, monthly, repairs, trimmed>>

\* retentionSweep: a row past its age, or with enough newer ones of its scope, is
\* deleted whatever its state.  What it added to the metrics stays.
TrimRow(r) ==
    /\ spine[r] # "none"
    /\ spine' = [spine EXCEPT ![r] = "none"]
    /\ trimmed' = trimmed \cup {r}
    /\ UNCHANGED <<apiVars, jobVars, deadVars, payload, countVars, repairs, rebuilds>>

-----------------------------------------------------------------------------
Api(r) ==
    \/ Enqueue(r) \/ AddStored(r) \/ EnqueueAnswered(r) \/ EnqueueFails(r)
    \/ WriteFallback(r) \/ RecordLost(r)

\* One run of process or of onFailed, without its failures.
Worker(r) ==
    \/ Take(r) \/ WriteSpine(r) \/ RecordCompletion(r) \/ RecordMonthlyUsage(r)
    \/ IndexPayload(r) \/ MarkIndexed(r) \/ Finish(r) \/ MarkFailed(r) \/ Bury(r)

Failure(r) ==
    \/ AttemptFails(r) \/ Stall(r) \/ StalledOut(r) \/ FailedHandlerDies(r)
    \/ DeadFails(r) \/ DeadStall(r) \/ DeadStalledOut(r)

DeadWorker(r) == DeadSpine(r) \/ DeadIndex(r) \/ DeadMark(r) \/ DeadFinish(r)

Repair == SelectStale \/ \E r \in Requests : RepairStalePending(r)

Next ==
    \/ \E r \in Requests : Api(r) \/ Worker(r) \/ Failure(r) \/ DeadWorker(r)
    \/ Repair \/ RebuildRecent \/ \E r \in Requests : TrimRow(r)

Spec == Init /\ [][Next]_vars

\* API handlers and workers go on with what they have begun, the repair with the
\* rows it selected.
ApiFair(r) == WF_vars(Api(r))
WorkerFair(r) == WF_vars(Worker(r))
DeadWorkerFair(r) == WF_vars(DeadWorker(r))
RepairFair(r) == WF_vars(RepairStalePending(r))

\* The repair is scheduled again and again.
ScheduleFair == WF_vars(SelectStale)

FairSpec ==
    /\ Spec
    /\ \A r \in Requests :
        ApiFair(r) /\ WorkerFair(r) /\ DeadWorkerFair(r) /\ RepairFair(r)
    /\ ScheduleFair

-----------------------------------------------------------------------------
(* Correctness.                                                             *)

\* Retries, stalled jobs and the fallback row never count a call twice, neither in
\* its token's monthly usage (access-token.service.ts:311) nor in the daily
\* metrics, unless the retention deleted the row between two attempts, which then
\* inserts it for the first time again; in the metrics a rebuild may also have
\* counted the row of a completion still to be added.  A call with a row is missing
\* there only while its completion is being added, or if the row's inserter did not
\* come to add it and nobody has rebuilt since (metrics.service.ts:171, 247).
CountExplained ==
    \A r \in Requests :
        /\ r \notin trimmed => monthly[r] <= 1
        /\ r \notin trimmed => counted[r] <= IF r \in recounted THEN 2 ELSE 1
        /\ counted[r] = 0 =>
               spine[r] = "none" \/ step[r] = "count" \/ r \in uncounted

\* A row that says "indexed" has its payload in Manticore, whoever marked it:
\* the worker, the dead-letter processor, or one of their interrupted attempts.
IndexedHasPayload ==
    \A r \in Requests : spine[r] = "indexed" => r \in payload

\* Every call whose API instance lives to finish its record leaves at least a
\* bare row, over queue time-outs, exhausted attempts and dead letters; the only
\* other ends are a dead-letter job that has used up its attempts and keeps the
\* record, and a job that went without a dead letter (rpc.service.ts:470).
EveryCallLogged ==
    \A r \in Requests :
        (record[r] = "logged") ~>
            (spine[r] # "none" \/ r \in trimmed \/ deadTries[r] = DeadAttempts
                 \/ r \in dropped)

\* No row stays pending for ever: it is indexed, buried or repaired.
PendingEnds ==
    \A r \in Requests : (spine[r] = "pending") ~> (spine[r] # "pending")

\* A row the exhausted job left "failed" gets its payload from the dead letter
\* unless all of that job's attempts fail too or the handler that sends it dies
\* (dead-letter.processor.ts:10).
FailedIsCompensated ==
    \A r \in Requests :
        (spine[r] = "failed") ~>
            (r \in payload \/ deadTries[r] = DeadAttempts \/ r \in dropped)

\* What the prover cannot see: the guards of the workers' steps enable them.  It
\* follows from the definitions and says nothing of the code; the theorems about
\* liveness take it as a hypothesis.
WorkGoesOn ==
    /\ \A r \in Requests :
        /\ step[r] \in AttemptSteps \cup {"waiting", "markFailed", "bury"}
               => ENABLED <<Worker(r)>>_vars
        /\ dead[r] \in DeadSteps => ENABLED <<DeadWorker(r)>>_vars
        /\ r \in repairs => ENABLED <<RepairStalePending(r)>>_vars
    /\ (\E r \in Requests : spine[r] = "pending" /\ r \notin repairs)
           => ENABLED <<SelectStale>>_vars

(* The inductive invariant behind the theorems of RequestLogs_proofs.       *)

\* A job exists only once it is stored, has attempts left until onFailed, and
\* is gone before its dead letter is handled.
JobsInOrder ==
    \A r \in Requests :
        /\ record[r] = "open" => add[r] = "none"
        /\ add[r] # "stored" => step[r] = "none"
        /\ step[r] \in AttemptSteps \cup {"none", "waiting"} => tries[r] < Attempts
        /\ dead[r] # "none" => step[r] = "gone"
        /\ dead[r] # "gone" => deadTries[r] < DeadAttempts
        /\ add[r] = "stored" => step[r] # "none"

\* What is still to be counted has not been counted: only the attempt that
\* inserted the row gets there, and no later attempt inserts it again unless the
\* retention has deleted it.
CountedAfterInsert ==
    \A r \in Requests \ trimmed :
        /\ step[r] \in {"count", "month"} => spine[r] # "none" /\ monthly[r] = 0
        /\ step[r] = "count" => counted[r] <= IF r \in recounted THEN 1 ELSE 0
        /\ spine[r] = "none" => monthly[r] = 0 /\ counted[r] = 0 /\ r \notin recounted

\* Whoever is about to mark the row indexed, or has done so, has stored the
\* payload, and that after the row.
StoredBeforeMark ==
    \A r \in Requests :
        /\ step[r] \in {"mark", "finish"} => r \in payload
        /\ dead[r] \in {"mark", "finish"} => r \in payload
        /\ step[r] = "index" \/ dead[r] = "index" \/ r \in payload
               => spine[r] # "none" \/ r \in trimmed

\* What became of a record that is logged, of a job that is gone and of a dead
\* letter that is gone.
NothingVanishes ==
    \A r \in Requests :
        /\ record[r] = "logged" => spine[r] # "none" \/ r \in trimmed \/ add[r] = "stored"
        /\ step[r] = "gone" => r \in payload \cup dropped \/ dead[r] # "none"
        /\ dead[r] = "gone"
               => r \in payload \cup dropped \/ deadTries[r] = DeadAttempts
        /\ spine[r] = "failed" => step[r] \in {"bury", "gone"}

LogInv ==
    /\ TypeOK
    /\ JobsInOrder
    /\ CountedAfterInsert
    /\ CountExplained
    /\ StoredBeforeMark
    /\ NothingVanishes
    /\ IndexedHasPayload

=============================================================================
