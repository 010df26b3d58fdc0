------------------------------ MODULE Flotilla ------------------------------
(***************************************************************************)
(* The life of runs, of either engine: the API requests, the submit,       *)
(* retry, terminate, status, events and cloudtrail workers, the run queue, *)
(* the task table and the clusters.                                        *)
(* Each step is one call of one of them; between two calls of one worker   *)
(* any other may act.                                                      *)
(***************************************************************************)
EXTENDS RunRequests, RetryWorker, StatusWorker, EmrEngine, EventsWorker,
        TrailWorker

vars == <<store, requestVars, sub, ret, trm, statusVars, eventVars, trl>>

TypeOK ==
  /\ StoreTypeOK
  /\ RequestTypeOK
  /\ SubmitTypeOK
  /\ RetryTypeOK
  /\ TerminateTypeOK
  /\ StatusTypeOK
  /\ EventTypeOK
  /\ TrailTypeOK

Init ==
  /\ StoreInit
  /\ RequestInit
  /\ SubmitInit
  /\ RetryInit
  /\ TerminateInit
  /\ StatusInit
  /\ EventInit
  /\ TrailInit

\* Two minutes, and the hour of the TTL, outlast what a worker has in hand,
\* unless it is stuck.
LongAfter(r) ==
  \/ "stuck" \in Faults
  \/ /\ \A w \in Submitters : sub[w].msg # NoMsg => RunOf(w) # r
     /\ \A p \in Pollers : pol[p].id # r

Environment ==
  \E r \in Runs :
    \/ JobStarts(r) \/ JobEnds(r) \/ SparkJobFails(r) \/ HalfHour(r)
    \/ LongAfter(r) /\ JobCollected(r)

TwoMinutesLater(r) == LongAfter(r) /\ \E p \in Pollers : CleanupRun(p, r)

Cleanup == \E r \in Runs : TwoMinutesLater(r)

Requests == \E r \in Runs : RequestStep(r)

\* A step of one component leaves the locals of the others alone.
OfRequests    == UNCHANGED <<sub, ret, trm, statusVars, eventVars, trl>>
OfSubmit      == UNCHANGED <<requestVars, ret, trm, statusVars, eventVars, trl>>
OfRetry       == UNCHANGED <<requestVars, sub, trm, statusVars, eventVars, trl>>
OfTerminate   == UNCHANGED <<requestVars, sub, ret, statusVars, eventVars, trl>>
OfStatus      == UNCHANGED <<requestVars, sub, ret, trm, eventVars, trl>>
OfEvents      == UNCHANGED <<requestVars, sub, ret, trm, statusVars, trl>>
OfTrail       == UNCHANGED <<requestVars, sub, ret, trm, statusVars, eventVars>>
OfEnvironment == UNCHANGED <<requestVars, sub, ret, trm, statusVars, eventVars, trl>>

Next ==
  \/ Requests /\ OfRequests
  \/ (SubmitStep \/ EmrSubmitStep) /\ OfSubmit
  \/ RetryStep /\ OfRetry
  \/ (TerminateStep \/ EmrTerminateStep) /\ OfTerminate
  \/ (StatusStep \/ Cleanup) /\ OfStatus
  \/ EventStep /\ OfEvents
  \/ TrailStep /\ OfTrail
  \/ Environment /\ OfEnvironment

Spec == Init /\ [][Next]_vars

-----------------------------------------------------------------------------
(* Safety *)

\* "It is *CRITICAL* to do this -before- queuing to avoid processing unsaved
\* runs" (services/execution.go:506): no message is in flight, and no worker
\* is at work, for a run that was not saved.  Submit workers acknowledge a run
\* they cannot load, so a message that overtook its row would be lost.
SavedBeforeQueued ==
  \A r \in Runs : rows[r].status = Unsaved =>
    /\ \A m \in Msgs : InFlight(m) => body[m] # r
    /\ \A w \in Submitters : sub[w].msg # NoMsg => RunOf(w) # r
    /\ \A w \in Retriers : ret[w].run # r /\ r \notin ret[w].todo
    /\ jobs[r] = "absent"

\* An EKS run that is not over is one the status workers list (their query drops a
\* NULL queued_at) or one whose creating request is still to set queued_at:
\* otherwise nothing would ever notice that its job ended or vanished.
Watched ==
  \A r \in Runs \ SparkRuns : rows[r].status \in Statuses \ {"STOPPED"} =>
    rows[r].queuedAt \/ req[r] \in {"saved", "enqueued"}

\* A run is on its way: a message for it is in flight, some worker is about to
\* send one or to stop the run, or its job is in the cluster.
OnItsWay(r) ==
  \/ \E m \in Msgs : InFlight(m) /\ body[m] = r
  \/ req[r] = "saved"
  \/ \E w \in Retriers : ret[w].pc = "enqueue" /\ ret[w].run = r
  \/ \E t \in Terminators : trm[t].pc = "stop" /\ trm[t].run = r
  \/ \E p \in Pollers : pol[p].id = r /\ pol[p].pc = "save" /\ pol[p].run.status = "STOPPED"
  \/ jobs[r] # "absent"

\* "QUEUED ... means the run is currently queued and waiting to be allocated to
\* a cluster" (README.md:193): a queued run is never stranded.
QueuedIsOnItsWay ==
  \A r \in Runs : rows[r].status = "QUEUED" => OnItsWay(r)

\* A submit worker acknowledges a message only when the run is gone, is not
\* queued any more, or has had a job (worker/submit_worker_test.go:100-104).
AckedWhenHandled ==
  \A w \in Submitters : sub[w].pc = "ack" =>
    \/ rows[RunOf(w)].status # "QUEUED"
    \/ launched[RunOf(w)] > 0

\* However often a message is delivered and a worker dies, one request for a
\* run creates one job: the job's name, the run's status and the order of
\* Execute, UpdateRun and Done in submitWorker.runOnce see to it.
LaunchedOnce == \A r \in Runs : launched[r] <= 1

\* "A run enters this stage when it finishes execution" (README.md:196): no
\* job of a stopped run is pending or active.
StoppedHasNoLiveJob ==
  \A r \in Runs : rows[r].status = "STOPPED" => ~Live(r)

\* cleanupRun, which wakes two minutes after it was scheduled, removes jobs
\* that ended and never one that runs.
CleanupSparesLiveJobs ==
  [][\A p \in Pollers, r \in Runs : r \in cleanup[p] \ cleanup'[p] /\ Live(r) =>
       jobs'[r] = jobs[r]]_vars

\* A notification that a job is over is deleted only once the run is STOPPED
\* in the table ("ack" follows a successful UpdateRun, worker/events_worker.go
\* :147-150, :332-337), though it may come before the id of the job was saved,
\* after the others, twice, and race with every other writer of the row.
AckedEndsAreRecorded ==
  \A r \in Runs, k \in News \intersect Ends :
    news[<<r, k>>] = "deleted" => rows[r].status \in {"STOPPED", Deleted}

\* A Spark run that clients see under way knows its job, so that it can be
\* terminated: emr_engine.go:392 needs the id, and every full-row writer
\* replaces the column that holds it.
SparkSeenHasJob ==
  \A r \in SparkRuns : rows[r].status \in {"PENDING", "RUNNING"} => rows[r].spark = "saved"

\* A job whose run lists emr.max_pod_events events is over or is about to be
\* cancelled, by the worker that saved the last one or, at a limit of one event,
\* by the next delivery of that event when the worker died in between, unless
\* the event is lost then (LosePodEvent): what is never done is to delete the
\* event that was listed and let the job go on.  (With three events, stale
\* writers may lower the list while that delivery is handled, and restore it when
\* the event is deleted.)
NoisyJobsAreCancelled ==
  \A r \in SparkRuns : rows[r].events >= MaxPodEvents =>
    ~Live(r) \/ \E k \in PodNews : news[<<r, k>>] \in {"visible", "hidden", "lost"}

-----------------------------------------------------------------------------
(* The statuses seen by clients *)

\* RunContract, with the status column and the runs that had a job.
Contract == INSTANCE RunContract WITH
  status  <- [r \in Runs |-> rows[r].status],
  started <- {r \in Runs : launched[r] > 0}

ImplementsContract == Contract!Spec

-----------------------------------------------------------------------------
(* Liveness *)

(***************************************************************************)
(* Every worker loops for ever over a fresh list or a fresh message, so a  *)
(* call that keeps failing is made again and again: strong fairness of the *)
(* successful call says it does not fail for ever.  A job has an active    *)
(* deadline and ends.                                                      *)
(***************************************************************************)
RequestFairness == \A r \in Runs : WF_vars(CreateStep(r) /\ OfRequests)

SubmitFairness ==
  /\ \A w \in Submitters :
       /\ WF_vars(SubmitAdvances(w) /\ OfSubmit)
       /\ SF_vars(LoadQueued(w) /\ OfSubmit)
       /\ SF_vars(Execute(w) /\ OfSubmit)
       /\ SF_vars(UpdateLaunched(w) /\ OfSubmit)
       /\ SF_vars(Done(w) /\ OfSubmit)
  /\ \A m \in Msgs :
       /\ SF_vars((\E w \in Submitters : ReceiveRun(w, m)) /\ OfSubmit)
       /\ WF_vars(VisibilityTimeout(m) /\ OfSubmit)

StatusFairness ==
  /\ \A p \in Pollers :
       /\ WF_vars(PollAdvances(p) /\ OfStatus)
       /\ SF_vars(FetchJob(p, FALSE) /\ OfStatus)
       /\ SF_vars(FetchNotFound(p) /\ OfStatus)
       /\ SF_vars(pol[p].run.status = "STOPPED" /\ SavePolled(p) /\ OfStatus)
  /\ \A r \in Runs :
       SF_vars((\E p \in Pollers : ListAndLock(p, r)) /\ OfStatus)

EnvironmentFairness ==
  \A r \in Runs :
    /\ WF_vars(JobStarts(r) /\ OfEnvironment)
    /\ WF_vars(JobEnds(r) /\ OfEnvironment)
    /\ WF_vars(HalfHour(r) /\ OfEnvironment)

EventFairness ==
  /\ \A e \in EventWorkers :
       /\ WF_vars(EventAdvances(e) /\ OfEvents)
       /\ SF_vars(evt[e].kind \in Ends /\ SaveNoted(e) /\ OfEvents)
  /\ \A r \in Runs, k \in News \intersect Ends :
       /\ WF_vars(Notify(r, k) /\ OfEvents)
       /\ WF_vars(Redeliver(r, k) /\ OfEvents)
       /\ SF_vars((\E e \in EventWorkers : Take(e, r, k)) /\ OfEvents)

\* The events workers and their queues go on; all the others may stop for good.
EventSpec == Spec /\ EventFairness

\* The status workers and the cluster go on; all the others may stop for good.
WatchSpec == Spec /\ StatusFairness /\ EnvironmentFairness

\* The API and the submit workers go on; all the others may stop for good.
SubmitSpec == Spec /\ RequestFairness /\ SubmitFairness

\* Every run the status workers can list is over in the end, whatever became
\* of its message, its job and every other worker, or was deleted.
WatchedRunsEnd ==
  \A r \in Runs \ SparkRuns :
    rows[r].queuedAt ~> rows[r].status \in {"STOPPED", Deleted}

\* A queued run is executed, or is stopped before it could be, however often
\* its message is redelivered and its workers die.
QueuedRunsStart ==
  \A r \in Runs : rows[r].status = "QUEUED" ~>
    rows[r].status \in {"STOPPED", Deleted} \/ launched[r] > 0

\* A Spark run whose job completed or failed, and was saved with the run, is
\* STOPPED in the end, whoever died, and however often and in whatever order
\* its notifications come.  A cancelled job is not in this: nothing reads that
\* it was.
EndedJobsStop ==
  \A r \in SparkRuns :
    Finished(r) /\ rows[r].spark = "saved" ~> rows[r].status \in {"STOPPED", Deleted}
=============================================================================
