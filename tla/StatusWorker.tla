---------------------------- MODULE StatusWorker ----------------------------
(***************************************************************************)
(* The status workers (worker/status_worker.go), with FetchUpdateStatus    *)
(* (eks_engine.go) and AdaptJobToFlotillaRun (eks_adapter.go).             *)
(* processEKSRun works on the row as it was listed, reloads it only to see *)
(* whether it is stopped, reads the job and saves.  Several processes may  *)
(* work on one run once a lock expires.  Bounds: a process works on one    *)
(* run at a time, and two cleanups it has asleep for a run count as one.   *)
(***************************************************************************)
EXTENDS FlotillaStore

CONSTANT Pollers  \* the status worker processes; each works on a run at a time

VARIABLES
  pol,     \* per process: its next call, its run, the row it will save
  cleanup  \* per process: the runs a cleanupRun goroutine is asleep for

statusVars == <<pol, cleanup>>

PollStates == {"idle", "reload", "fetch", "save"}

PollLocal == [pc : PollStates, id : Runs \union {NoRun}, run : Row]

StatusTypeOK ==
  /\ pol \in [Pollers -> PollLocal]
  /\ cleanup \in [Pollers -> SUBSET Runs]

NotPolling == [pc |-> "idle", id |-> NoRun, run |-> Blank("QUEUED")]

StatusInit ==
  /\ pol = [p \in Pollers |-> NotPolling]
  /\ cleanup = [p \in Pollers |-> {}]

Return(p) == pol' = [pol EXCEPT ![p] = NotPolling]

-----------------------------------------------------------------------------

\* A bug: listing the runs the cluster is known to have.
ToPollStarted(r) ==
  r \notin SparkRuns /\ rows[r].status \in {"PENDING", "RUNNING"} /\ rows[r].queuedAt

\* runOnceEKS lists the runs to look at: those of the EKS engine with queued_at
\* set (the list compares it with a date) and any status but STOPPED.
ToPoll(r) ==
  r \notin SparkRuns /\ rows[r].status \in Statuses \ {"STOPPED"} /\ rows[r].queuedAt

\* acquireLock keeps others away for 45 seconds, unless they race for the key:
\* StatusLock models the lock itself.
ListAndLock(p, r) ==
  /\ pol[p].pc = "idle"
  /\ ToPoll(r)
  /\ "slow" \in Faults \/ \A q \in Pollers : pol[q].id # r
  /\ pol' = [pol EXCEPT ![p] = [pc |-> "reload", id |-> r, run |-> rows[r]]]
  /\ UNCHANGED <<store, cleanup>>

\* Only a run found STOPPED is left alone; an error is not.
Reload(p) ==
  /\ pol[p].pc = "reload"
  /\ pol' = [pol EXCEPT ![p] = IF rows[pol[p].id].status = "STOPPED"
                               THEN NotPolling ELSE [@ EXCEPT !.pc = "fetch"]]
  /\ UNCHANGED <<store, cleanup>>

\* A bug: giving up on a job that was not created yet.
GiveUpAtOnce(p) ==
  /\ pol[p].pc = "fetch"
  /\ jobs[pol[p].id] = "absent"
  /\ pol' = [pol EXCEPT ![p].pc = "save", ![p].run.status = "STOPPED"]
  /\ UNCHANGED <<store, cleanup>>

\* No such job: given up after the half hour, left for the next poll before.
FetchNotFound(p) ==
  /\ pol[p].pc = "fetch"
  /\ jobs[pol[p].id] = "absent"
  /\ pol' = [pol EXCEPT ![p] =
       IF old[@.id] THEN [@ EXCEPT !.pc = "save", !.run.status = "STOPPED"]
       ELSE NotPolling]
  /\ UNCHANGED <<store, cleanup>>

\* Any other error, an unknown cluster's included, ends the poll.
FetchError(p) ==
  /\ pol[p].pc = "fetch"
  /\ pol[p].id \in BadCluster \/ "cluster" \in Faults
  /\ Return(p)
  /\ UNCHANGED <<store, cleanup>>

(***************************************************************************)
(* AdaptJobToFlotillaRun: what the state j of the job makes of a run.  lag *)
(* is the case of a succeeded job whose pod was found in an earlier phase: *)
(* the run is left as it is.                                               *)
(***************************************************************************)
AdaptJob(j, run, lag) ==
  CASE j = "active"               -> [run EXCEPT !.status = "RUNNING"]
    [] j = "succeeded" /\ ~lag    -> Stop(run)
    [] j = "failed"               -> Stop(run)
    [] OTHER                      -> run

\* A pod found for a run without one gives it its pod_name.
FetchUpdateStatus(run, j, pod, lag) ==
  AdaptJob(j, [run EXCEPT !.podName = @ \/ pod], pod /\ lag)

\* A bug: cleaning up after whatever change of status was seen.
OutcomeCleansAll(p, upd, write) ==
  LET moved == upd.status # pol[p].run.status
      r == pol[p].id
  IN /\ cleanup' = [cleanup EXCEPT ![p] = IF moved THEN @ \union {r} ELSE @]
     /\ pol' = [pol EXCEPT ![p].pc = "save", ![p].run = upd]

(***************************************************************************)
(* A status that changed is saved, with a cleanup when there is an exit    *)
(* code -- unless the pod was found in the same poll, which is saved as a  *)
(* change of columns.  Otherwise metrics and spawned runs decide (write).  *)
(***************************************************************************)
Outcome(p, upd, write) ==
  LET found == upd.podName # pol[p].run.podName
      moved == upd.status # pol[p].run.status /\ ~found
      clean == moved /\ upd.exitCode
      r == pol[p].id
  IN /\ cleanup' = [cleanup EXCEPT ![p] = IF clean THEN @ \union {r} ELSE @]
     /\ pol' = [pol EXCEPT ![p] = IF moved \/ found \/ write
                                  THEN [@ EXCEPT !.pc = "save", !.run = upd]
                                  ELSE NotPolling]

FetchJob(p, lag) ==
  /\ pol[p].pc = "fetch"
  /\ jobs[pol[p].id] # "absent"
  /\ \E pod, write \in BOOLEAN :
       Outcome(p, FetchUpdateStatus(pol[p].run, jobs[pol[p].id], pod, lag), write)
  /\ UNCHANGED store

SavePolled(p) ==
  /\ pol[p].pc = "save"
  /\ UpdateRun(pol[p].id, pol[p].run)
  /\ Return(p)
  /\ UNCHANGED <<body, queue, jobs, launched, old, cleanup>>

SaveFails(p) ==
  /\ pol[p].pc = "save" /\ "db" \in Faults
  /\ Return(p)
  /\ UNCHANGED <<store, cleanup>>

\* cleanupRun wakes up two minutes later and terminates the run's job,
\* whichever that is by then; a missing run is not terminated.
CleanupRun(p, r) ==
  /\ r \in cleanup[p]
  /\ cleanup' = [cleanup EXCEPT ![p] = @ \ {r}]
  /\ \/ Exists(r) /\ jobs' = [jobs EXCEPT ![r] = "absent"]
     \/ ~Exists(r) /\ UNCHANGED jobs
     \/ (r \in BadCluster \/ Faults \intersect {"db", "cluster"} # {}) /\ UNCHANGED jobs
  /\ UNCHANGED <<rows, body, queue, launched, old, pol>>

\* The process dies, and the cleanups asleep in it.
PollCrash(p) ==
  /\ "crash" \in Faults
  /\ Return(p)
  /\ cleanup' = [cleanup EXCEPT ![p] = {}]
  /\ UNCHANGED store

PollAdvances(p) ==
  \/ Reload(p) \/ FetchNotFound(p) \/ SavePolled(p)
  \/ \E lag \in BOOLEAN : FetchJob(p, lag)

StatusStep ==
  \E p \in Pollers :
    \/ PollAdvances(p) \/ FetchError(p) \/ SaveFails(p) \/ PollCrash(p)
    \/ \E r \in Runs : ListAndLock(p, r)
=============================================================================
