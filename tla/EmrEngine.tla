------------------------------ MODULE EmrEngine ------------------------------
(***************************************************************************)
(* The EMR engine (execution/engine/emr_engine.go) where the submit worker *)
(* and the terminate goroutine call it for a Spark run.  Unlike the EKS    *)
(* engine it never asks for a retry, and it leaves the run QUEUED: what    *)
(* becomes of the job is learnt from events only (EventsWorker).           *)
(***************************************************************************)
EXTENDS SubmitWorker, TerminateWorker

ExecutesEmr(w) == sub[w].pc = "execute" /\ RunOf(w) \in SparkRuns

\* StartJobRun carries the run as ClientToken: asked again, EMR answers with
\* the job it started for that token.
StartJobRun(r) == CreateJob(r) \/ (jobs[r] # "absent" /\ UNCHANGED store)

\* Execute: the run handed back is queued and knows its job.
ExecuteSpark(w) ==
  /\ ExecutesEmr(w)
  /\ StartJobRun(RunOf(w))
  /\ GotoWith(w, "update", [sub[w].run EXCEPT !.status = "QUEUED", !.spark = "saved"])

\* Execute returns an error, as never retryable: EMR rejected the job, or its
\* answer was lost.  The worker stops the run, with what was loaded of it.
ExecuteSparkFails(w) ==
  /\ ExecutesEmr(w)
  /\ \/ RunOf(w) \in BadCluster /\ UNCHANGED store
     \/ "cluster" \in Faults /\ StartJobRun(RunOf(w))
  /\ GotoWith(w, "update", Stop(sub[w].run))

EmrSubmitStep == \E w \in Submitters : ExecuteSpark(w) \/ ExecuteSparkFails(w)

CancelsEmr(t) == trm[t].pc = "delete" /\ trm[t].run \in SparkRuns

\* Terminate: CancelJobRun of the job of the run as it was loaded.
CancelJobRun(t) ==
  /\ CancelsEmr(t) /\ trm[t].job
  /\ CancelJob(trm[t].run)
  /\ trm' = [trm EXCEPT ![t].pc = "stop"]
  /\ UNCHANGED <<rows, body, queue, launched, old>>

\* CancelJobRun needs the id of a job, and refuses one that is over.
CancelRefused(t) ==
  /\ CancelsEmr(t)
  /\ ~trm[t].job \/ ~Live(trm[t].run) \/ "cluster" \in Faults
  /\ TerminateError(t)

EmrTerminateStep == \E t \in Terminators : CancelJobRun(t) \/ CancelRefused(t)
=============================================================================
