--------------------------- MODULE FlotillaStore ---------------------------
(***************************************************************************)
(* What the workers and the API of flotilla share: the `task' table        *)
(* (state/pg_state_manager.go), the SQS queue of runs to submit            *)
(* (queue/sqs_manager.go) and the jobs of the runs: Kubernetes jobs named  *)
(* after their run (execution/engine/eks_engine.go), EMR jobs started with *)
(* the run as client token (execution/engine/emr_engine.go).               *)
(***************************************************************************)
EXTENDS RunModel

CONSTANTS
  Runs,         \* run identifiers; each is used by one request
  SparkRuns,    \* those of them with engine "eks-spark", run by EMR
  Msgs,         \* identities of SQS messages: a bound on how many are sent
  NoRun,        \* not a run
  NoMsg,        \* not a message
  BadCluster,   \* runs the cluster may reject: processes started with other settings have no client for it
  MaxLaunches,  \* bound on the jobs created for one run
  Faults        \* the classes of failure that may happen, see below

(***************************************************************************)
(* "db"       a call to Postgres returns an error                          *)
(* "queue"    a call to SQS returns an error                               *)
(* "cluster"  a call to Kubernetes returns an error, or its reply is lost  *)
(* "request"  the request that creates a run stops before its last write   *)
(* "retry"    a round of a retry worker stops before its last write        *)
(* "terminate" a termination stops before its last write                   *)
(* "crash"    another worker's process dies between two calls              *)
(* "slow"     a worker outlives its 45 s message visibility or Redis lock, *)
(*            or gets past the lock of another (StatusLock)                *)
(* "stuck"    a worker has one run in hand for more than two minutes       *)
(* "ttl"      a finished job is collected before its run was seen to end   *)
(* "late"     a run waits on the queue for more than half an hour          *)
(***************************************************************************)
FaultClasses ==
  {"db", "queue", "cluster", "request", "retry", "terminate",
   "crash", "slow", "stuck", "ttl", "late"}

ASSUME StoreAssumption ==
  /\ SparkRuns \subseteq Runs
  /\ NoRun \notin Runs
  /\ NoMsg \notin Msgs
  /\ BadCluster \subseteq Runs
  /\ MaxLaunches \in Nat \ {0}
  /\ Faults \subseteq FaultClasses

VARIABLES
  rows,      \* the task table
  body,      \* the run each message carries
  queue,     \* where each message is
  jobs,      \* the Kubernetes or EMR job of each run
  launched,  \* how many jobs were ever created for the run
  old        \* queued_at is more than 30 minutes ago

store == <<rows, body, queue, jobs, launched, old>>

MsgStates == {"unsent", "visible", "hidden", "deleted"}
JobStates == {"absent", "pending", "active", "succeeded", "failed", "cancelled"}

StoreTypeOK ==
  /\ rows \in [Runs -> Stored]
  /\ body \in [Msgs -> Runs \union {NoRun}]
  /\ queue \in [Msgs -> MsgStates]
  /\ jobs \in [Runs -> JobStates]
  /\ launched \in [Runs -> Nat]
  /\ old \in [Runs -> BOOLEAN]

StoreInit ==
  /\ rows = [r \in Runs |-> Blank(Unsaved)]
  /\ body = [m \in Msgs |-> NoRun]
  /\ queue = [m \in Msgs |-> "unsent"]
  /\ jobs = [r \in Runs |-> "absent"]
  /\ launched = [r \in Runs |-> 0]
  /\ old = [r \in Runs |-> FALSE]

-----------------------------------------------------------------------------
(* The state manager. *)

Exists(r) == rows[r].status \in Statuses

\* SELECT ... FOR UPDATE, merge, UPDATE in one transaction; no row, no effect.
UpdateRun(r, o) ==
  rows' = IF Exists(r) THEN [rows EXCEPT ![r] = UpdateWith(@, o)] ELSE rows

(* The run queue.  A message is in flight from the moment it is sent until *)
(* it is deleted: visible to every worker, or hidden while one works on it. *)

InFlight(m) == queue[m] \in {"visible", "hidden"}

\* Which message carries a run makes no difference, so any of the unsent ones
\* will do.
Unsent == {m \in Msgs : queue[m] = "unsent"}

Enqueue(r) ==
  /\ Unsent # {}
  /\ LET m == CHOOSE n \in Unsent : TRUE
     IN  /\ queue' = [queue EXCEPT ![m] = "visible"]
         /\ body' = [body EXCEPT ![m] = r]

(* The clusters.  A Kubernetes job is created pending, runs one pod (backoff *)
(* limit 0), and is collected TTLSecondsAfterFinished later; its           *)
(* ActiveDeadlineSeconds bound the time it is active.  An EMR job may fail *)
(* before its driver starts, may be cancelled, and is never collected.     *)

Finished(r) == jobs[r] \in {"succeeded", "failed"}
Live(r) == jobs[r] \in {"pending", "active"}

SetJob(r, s) ==
  /\ jobs' = [jobs EXCEPT ![r] = s]
  /\ UNCHANGED <<rows, body, queue, launched, old>>

JobStarts(r) == jobs[r] = "pending" /\ SetJob(r, "active")

JobEnds(r) == \E s \in {"succeeded", "failed"} : jobs[r] = "active" /\ SetJob(r, s)

SparkJobFails(r) == r \in SparkRuns /\ jobs[r] = "pending" /\ SetJob(r, "failed")

JobCollected(r) ==
  /\ Finished(r) /\ r \notin SparkRuns
  /\ (rows[r].status = "STOPPED") \/ ("ttl" \in Faults)
  /\ SetJob(r, "absent")

\* CancelJobRun, of a job EMR has started: one that is over stays as it is.
CancelJob(r) == jobs' = [jobs EXCEPT ![r] = IF Live(r) THEN "cancelled" ELSE @]

\* The half hour after which processEKSRun gives up on a job it cannot find.
HalfHour(r) ==
  /\ rows[r].queuedAt /\ ~old[r] /\ r \notin SparkRuns
  /\ rows[r].status \notin {"QUEUED", "NEEDS_RETRY"} \/ "late" \in Faults
  /\ old' = [old EXCEPT ![r] = TRUE]
  /\ UNCHANGED <<rows, body, queue, jobs, launched>>
=============================================================================
