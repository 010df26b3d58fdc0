--------------------------- MODULE TerminateWorker ---------------------------
(***************************************************************************)
(* Terminating a run (executionService.terminateWorker): load the run,     *)
(* delete its job (eks_engine.go, Terminate), then mark it stopped.  The   *)
(* channel the requests go through is modelled in TerminateChannel, the    *)
(* Terminate of the other engine in EmrEngine.                             *)
(***************************************************************************)
EXTENDS FlotillaStore

CONSTANT Terminators  \* the goroutines that may be running at once

\* Per goroutine: its next call, the run, and what it loaded of it: the status,
\* and whether the id of an EMR job is known.
VARIABLE trm

TerminateStates == {"idle", "delete", "stop"}

TerminateLocal ==
  [pc : TerminateStates, run : Runs \union {NoRun}, status : Statuses, job : BOOLEAN]

TerminateTypeOK == trm \in [Terminators -> TerminateLocal]

Unused == [pc |-> "idle", run |-> NoRun, status |-> "STOPPED", job |-> FALSE]

TerminateInit == trm = [t \in Terminators |-> Unused]

\* GetRun; a stopped or missing run, or an error, ends the goroutine here.
LoadRun(t, r) ==
  /\ trm[t].pc = "idle"
  /\ Exists(r) /\ rows[r].status # "STOPPED"
  /\ trm' = [trm EXCEPT ![t] = [pc |-> "delete", run |-> r, status |-> rows[r].status,
                                job |-> rows[r].spark = "saved"]]
  /\ UNCHANGED store

DeletesEks(t) == trm[t].pc = "delete" /\ trm[t].run \notin SparkRuns

\* The Kubernetes errors of the deletion are dropped.
DeleteJob(t) ==
  /\ DeletesEks(t)
  /\ \/ jobs' = [jobs EXCEPT ![trm[t].run] = "absent"]
     \/ "cluster" \in Faults /\ UNCHANGED jobs
  /\ trm' = [trm EXCEPT ![t].pc = "stop"]
  /\ UNCHANGED <<rows, body, queue, launched, old>>

\* Terminate returns an error: only a run loaded as queued is still stopped.
TerminateError(t) ==
  /\ trm' = [trm EXCEPT ![t] =
       IF @.status = "QUEUED" THEN [@ EXCEPT !.pc = "stop"] ELSE Unused]
  /\ UNCHANGED store

NoClient(t) == DeletesEks(t) /\ trm[t].run \in BadCluster /\ TerminateError(t)

MarkStopped(t) ==
  /\ trm[t].pc = "stop"
  /\ UpdateRun(trm[t].run, Report("STOPPED", TRUE))
  /\ trm' = [trm EXCEPT ![t] = Unused]
  /\ UNCHANGED <<body, queue, jobs, launched, old>>

\* UpdateRun returns an error, which nobody reads, or the process dies.
TerminateFails(t) ==
  /\ trm[t].pc # "idle" /\ "terminate" \in Faults
  /\ trm' = [trm EXCEPT ![t] = Unused]
  /\ UNCHANGED store

TerminateAdvances(t) == DeleteJob(t) \/ NoClient(t) \/ MarkStopped(t)

TerminateStep ==
  \E t \in Terminators :
    \/ TerminateAdvances(t) \/ TerminateFails(t)
    \/ \E r \in Runs : LoadRun(t, r)
=============================================================================
