---------------------------- MODULE EventsWorker ----------------------------
(***************************************************************************)
(* The events workers (worker/events_worker.go).  A worker takes one       *)
(* notification at a time from the queues of Kubernetes events (runOnce)   *)
(* and of EMR job states (runOnceEMR): it loads the run, changes the row   *)
(* and writes all of it back, and deletes the notification when that       *)
(* succeeded.  The queues are SQS queues like that of the runs: unordered, *)
(* and a notification not deleted within 45 seconds is delivered again.    *)
(* Bounds: each kind of notification is sent once for a run; the count of  *)
(* saved pod events stops at the limit it is compared with.                *)
(***************************************************************************)
EXTENDS FlotillaStore

CONSTANTS
  EventWorkers,
  EmrNews,       \* the EMR job states that are reported
  EksNews,       \* the reasons of the Kubernetes job and pod events that are
  PodNews,       \* identities of the pod events of an EMR job
  MaxPodEvents   \* emr.max_pod_events

EmrStates == {"SUBMITTED", "RUNNING", "COMPLETED", "FAILED", "CANCELLED"}
EksReasons == {"Scheduled", "Completed", "DeadlineExceeded"}

ASSUME EventAssumption ==
  /\ EmrNews \subseteq EmrStates
  /\ EksNews \subseteq EksReasons
  /\ PodNews \intersect (EmrStates \union EksReasons) = {}
  /\ MaxPodEvents \in Nat \ {0}

VARIABLES
  news,  \* where each notification is
  evt    \* per worker: its next call, the notification held, the row it makes

eventVars == <<news, evt>>

News == EmrNews \union EksNews \union PodNews

EventStates == {"receive", "save", "cancel", "ack"}

EventLocal ==
  [pc : EventStates, run : Runs \union {NoRun}, kind : News \union {NoStatus}, row : Row]

\* A pod event that was deleted and had no effect is "lost".
NewsStates == MsgStates \union {"lost"}

EventTypeOK ==
  /\ news \in [Runs \X News -> NewsStates]
  /\ evt \in [EventWorkers -> EventLocal]

Receiving == [pc |-> "receive", run |-> NoRun, kind |-> NoStatus, row |-> Blank("QUEUED")]

EventInit ==
  /\ news = [n \in Runs \X News |-> "unsent"]
  /\ evt = [e \in EventWorkers |-> Receiving]

Receive(e) == evt' = [evt EXCEPT ![e] = Receiving]
Then(e, pc) == evt' = [evt EXCEPT ![e].pc = pc]
Put(n, s) == news' = [news EXCEPT ![n] = s]

-----------------------------------------------------------------------------
(* What is reported, and what a worker makes of it. *)

\* The states of a job in which each kind of notification is sent.
Cause ==
  [SUBMITTED |-> {"pending"}, RUNNING |-> {"active"}, COMPLETED |-> {"succeeded"},
   FAILED |-> {"failed"}, CANCELLED |-> {"cancelled"},
   Scheduled |-> {"pending", "active"}, Completed |-> {"succeeded"},
   DeadlineExceeded |-> {"failed"}]

About(r, k) ==
  IF r \in SparkRuns
  THEN \/ k \in EmrNews /\ jobs[r] \in Cause[k]
       \/ k \in PodNews /\ Live(r)
  ELSE k \in EksNews /\ jobs[r] \in Cause[k]

Notify(r, k) ==
  /\ news[<<r, k>>] = "unsent" /\ About(r, k)
  /\ Put(<<r, k>>, "visible")
  /\ UNCHANGED <<store, evt>>

\* A bug: taking a run for that of a job its row does not know yet.
FoundByName(r) == Exists(r)

\* GetRun by the name of the job, GetRunByEMRJobId by the id saved with the run.
Found(r) == Exists(r) /\ (r \in SparkRuns => rows[r].spark = "saved")

AddPodEvent(row) ==
  [row EXCEPT !.events = IF @ < MaxPodEvents THEN @ + 1 ELSE @]

\* The notifications that a job is over.
Ends == {"COMPLETED", "FAILED", "Completed", "DeadlineExceeded"}

\* processEventEMR, processEvent and processEMRPodEvents; a CANCELLED job and
\* any other reason change no column that is kept here.
Noted(row, k) ==
  CASE k \in Ends       -> Stop(row)
    [] k = "RUNNING"   -> [row EXCEPT !.status = "RUNNING"]
    [] k = "SUBMITTED" -> [row EXCEPT !.status = "PENDING"]
    [] k = "Scheduled" -> [row EXCEPT !.podName = TRUE]
    [] k \in PodNews   -> AddPodEvent(row)
    [] OTHER           -> row

-----------------------------------------------------------------------------
(* The worker. *)

\* A bug: deleting the notification as it is received.
TakeAcked(e, r, k) ==
  /\ evt[e].pc = "receive" /\ news[<<r, k>>] = "visible" /\ Found(r)
  /\ Put(<<r, k>>, "deleted")
  /\ evt' = [evt EXCEPT ![e] =
       [pc |-> "save", run |-> r, kind |-> k, row |-> Noted(rows[r], k)]]
  /\ UNCHANGED store

\* ReceiveMessage, and the run is found.
Take(e, r, k) ==
  /\ evt[e].pc = "receive" /\ news[<<r, k>>] = "visible" /\ Found(r)
  /\ Put(<<r, k>>, "hidden")
  /\ evt' = [evt EXCEPT ![e] =
       [pc |-> "save", run |-> r, kind |-> k, row |-> Noted(rows[r], k)]]
  /\ UNCHANGED store

\* A bug: deleting a notification no run is found for.
DropUnknown(e, r, k) ==
  /\ evt[e].pc = "receive" /\ news[<<r, k>>] = "visible"
  /\ ~Found(r) \/ "db" \in Faults
  /\ Put(<<r, k>>, "deleted")
  /\ UNCHANGED <<store, evt>>

\* The run is not found, not yet perhaps: left to be delivered again.
TakeUnknown(e, r, k) ==
  /\ evt[e].pc = "receive" /\ news[<<r, k>>] = "visible"
  /\ k \notin PodNews
  /\ ~Found(r) \/ "db" \in Faults
  /\ Put(<<r, k>>, "hidden")
  /\ UNCHANGED <<store, evt>>

\* A pod event is deleted all the same, and not only when its run is not found:
\* its pod may be gone, Kubernetes may not answer, the label with the id of the
\* job may be missing.  It comes back if it cannot be deleted.
LosePodEvent(e, r, k) ==
  /\ evt[e].pc = "receive" /\ news[<<r, k>>] = "visible"
  /\ k \in PodNews
  /\ \/ Put(<<r, k>>, "lost")
     \/ Faults \intersect {"queue", "slow", "crash"} # {} /\ Put(<<r, k>>, "hidden")
  /\ UNCHANGED <<store, evt>>

AtLimit(e) == evt[e].kind \in PodNews /\ evt[e].row.events >= MaxPodEvents

\* A bug: deleting the notification first, then cancelling the job.
SaveThenAck(e) ==
  /\ evt[e].pc = "save"
  /\ UpdateRun(evt[e].run, evt[e].row)
  /\ Then(e, "ack")
  /\ UNCHANGED <<body, queue, jobs, launched, old, news>>

\* UpdateRun of the whole row; a job with too many pod events is cancelled.
SaveNoted(e) ==
  /\ evt[e].pc = "save"
  /\ UpdateRun(evt[e].run, evt[e].row)
  /\ Then(e, IF AtLimit(e) THEN "cancel" ELSE "ack")
  /\ UNCHANGED <<body, queue, jobs, launched, old, news>>

\* UpdateRun returns an error: the notification is left, but for a pod event,
\* which goes on as if it had been saved.
SaveNotedFails(e) ==
  /\ evt[e].pc = "save" /\ "db" \in Faults
  /\ \/ evt[e].kind \notin PodNews /\ Receive(e)
     \/ evt[e].kind \in PodNews /\ Then(e, "ack")
     \/ AtLimit(e) /\ Then(e, "cancel")
  /\ UNCHANGED <<store, news>>

\* emrEngine.Terminate, whose error is dropped; the run is not marked.
CancelNoisy(e) ==
  /\ evt[e].pc = "cancel"
  /\ \/ CancelJob(evt[e].run)
     \/ "cluster" \in Faults /\ UNCHANGED jobs
  /\ Then(e, "ack")
  /\ UNCHANGED <<rows, body, queue, launched, old, news>>

DeleteNotice(e) ==
  /\ evt[e].pc = "ack"
  /\ \/ Put(<<evt[e].run, evt[e].kind>>, "deleted")
     \/ Faults \intersect {"queue", "slow"} # {} /\ UNCHANGED news
  /\ Receive(e)
  /\ UNCHANGED store

EventCrash(e) ==
  /\ "crash" \in Faults /\ evt[e].pc # "receive"
  /\ Receive(e)
  /\ UNCHANGED <<store, news>>

Redeliver(r, k) ==
  /\ news[<<r, k>>] = "hidden"
  /\ "slow" \in Faults \/ \A e \in EventWorkers : <<evt[e].run, evt[e].kind>> # <<r, k>>
  /\ Put(<<r, k>>, "visible")
  /\ UNCHANGED <<store, evt>>

EventAdvances(e) == SaveNoted(e) \/ CancelNoisy(e) \/ DeleteNotice(e)

EventStep ==
  \/ \E e \in EventWorkers :
       \/ EventAdvances(e) \/ SaveNotedFails(e) \/ EventCrash(e)
       \/ \E r \in Runs, k \in News :
            Take(e, r, k) \/ TakeUnknown(e, r, k) \/ LosePodEvent(e, r, k)
  \/ \E r \in Runs, k \in News : Redeliver(r, k) \/ Notify(r, k)
=============================================================================
