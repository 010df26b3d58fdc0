---------------------------- MODULE RunRequests ----------------------------
(***************************************************************************)
(* The requests of the HTTP API that write a run: creating one             *)
(* (executionService.createAndEnqueueRun), setting its status by hand      *)
(* (executionService.UpdateStatus) and deleting its definition, which      *)
(* deletes its rows.                                                       *)
(***************************************************************************)
EXTENDS FlotillaStore

CONSTANTS
  MaxReports,     \* bound on the status updates clients send for one run
  ReportStatuses, \* the statuses they send
  Deletable       \* runs whose definition may be deleted

ASSUME RequestAssumption ==
  /\ MaxReports \in Nat
  /\ ReportStatuses \subseteq Statuses
  /\ Deletable \subseteq Runs

VARIABLES
  req,      \* how far the request that creates the run has come
  reports   \* how many status updates clients sent

requestVars == <<req, reports>>

RequestStates == {"new", "saved", "enqueued", "done", "failed"}

RequestTypeOK ==
  /\ req \in [Runs -> RequestStates]
  /\ reports \in [Runs -> Nat]

RequestInit ==
  /\ req = [r \in Runs |-> "new"]
  /\ reports = [r \in Runs |-> 0]

Progress(r, s) == req' = [req EXCEPT ![r] = s] /\ UNCHANGED reports

\* A bug: telling the queue first, so that the message may overtake the row.
EnqueueFirst(r) ==
  /\ req[r] = "new"
  /\ Enqueue(r)
  /\ Progress(r, "saved")
  /\ UNCHANGED <<rows, jobs, launched, old>>

\* What CreateRun inserts: no queued_at yet, and the spark_extension a request
\* for an EMR run must carry.
NewRun(r) ==
  [Blank("QUEUED") EXCEPT !.spark = IF r \in SparkRuns THEN "new" ELSE "nil"]

SaveRun(r) ==
  /\ req[r] = "new"
  /\ rows' = [rows EXCEPT ![r] = NewRun(r)]
  /\ Progress(r, "saved")
  /\ UNCHANGED <<body, queue, jobs, launched, old>>

EnqueueRun(r) ==
  /\ req[r] = "saved"
  /\ Enqueue(r)
  /\ Progress(r, "enqueued")
  /\ UNCHANGED <<rows, jobs, launched, old>>

\* UpdateRun of the queued_at column only.
StampQueuedAt(r) ==
  /\ req[r] = "enqueued"
  /\ UpdateRun(r, [Blank(NoStatus) EXCEPT !.queuedAt = TRUE])
  /\ Progress(r, "done")
  /\ UNCHANGED <<body, queue, jobs, launched, old>>

\* An error of any of the three calls is returned to the client as it is.
RequestFails(r) ==
  /\ "request" \in Faults
  /\ req[r] \in {"new", "saved", "enqueued"}
  /\ Progress(r, "failed")
  /\ UNCHANGED store

\* UpdateStatus: any valid status, with or without an exit code.
UpdateStatus(r) ==
  /\ Exists(r) /\ reports[r] < MaxReports
  /\ \E s \in ReportStatuses, e \in BOOLEAN : UpdateRun(r, Report(s, e))
  /\ reports' = [reports EXCEPT ![r] = @ + 1]
  /\ UNCHANGED <<req, body, queue, jobs, launched, old>>

\* DeleteDefinition: the rows go, messages and jobs stay.
DeleteDefinition(r) ==
  /\ r \in Deletable /\ Exists(r)
  /\ rows' = [rows EXCEPT ![r] = Blank(Deleted)]
  /\ UNCHANGED <<body, queue, jobs, launched, old, requestVars>>

CreateStep(r) == SaveRun(r) \/ EnqueueRun(r) \/ StampQueuedAt(r)

RequestStep(r) ==
  CreateStep(r) \/ RequestFails(r) \/ UpdateStatus(r) \/ DeleteDefinition(r)
=============================================================================
