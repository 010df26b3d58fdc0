---------------------------- MODULE SubmitWorker ----------------------------
(***************************************************************************)
(* The submit workers (worker/submit_worker.go) and the part of the EKS    *)
(* engine they call (eks_engine.go: PollRuns, Execute).  A worker takes    *)
(* one message at a time: ReceiveRun, GetRun, Execute, UpdateRun, Done.    *)
(* EmrEngine has the Execute of the other engine.                          *)
(***************************************************************************)
EXTENDS FlotillaStore

CONSTANT Submitters

VARIABLE sub  \* per worker: its next call, the message held, the run in hand

SubmitStates == {"poll", "load", "execute", "update", "ack"}

SubmitLocal == [pc : SubmitStates, msg : Msgs \union {NoMsg}, run : Row]

SubmitTypeOK == sub \in [Submitters -> SubmitLocal]

Polling == [pc |-> "poll", msg |-> NoMsg, run |-> Blank("QUEUED")]

SubmitInit == sub = [w \in Submitters |-> Polling]

RunOf(w) == body[sub[w].msg]

Goto(w, pc) == sub' = [sub EXCEPT ![w].pc = pc]
GotoWith(w, pc, run) == sub' = [sub EXCEPT ![w].pc = pc, ![w].run = run]
PollAgain(w) == sub' = [sub EXCEPT ![w] = Polling]

-----------------------------------------------------------------------------

\* A bug: deleting a message as soon as it is received.
ReceiveAndDelete(w, m) ==
  /\ sub[w].pc = "poll"
  /\ queue[m] = "visible"
  /\ queue' = [queue EXCEPT ![m] = "deleted"]
  /\ sub' = [sub EXCEPT ![w] = [Polling EXCEPT !.pc = "load", !.msg = m]]
  /\ UNCHANGED <<rows, body, jobs, launched, old>>

\* PollRuns: at most one message, hidden from the others for 45 seconds.
ReceiveRun(w, m) ==
  /\ sub[w].pc = "poll"
  /\ queue[m] = "visible"
  /\ queue' = [queue EXCEPT ![m] = "hidden"]
  /\ sub' = [sub EXCEPT ![w] = [Polling EXCEPT !.pc = "load", !.msg = m]]
  /\ UNCHANGED <<rows, body, jobs, launched, old>>

\* A bug: executing a redelivered run without looking at its status.
LoadAnyStatus(w) ==
  /\ sub[w].pc = "load" /\ Exists(RunOf(w))
  /\ GotoWith(w, "execute", rows[RunOf(w)])
  /\ UNCHANGED store

\* GetRun; only a queued run is executed.
LoadQueued(w) ==
  /\ sub[w].pc = "load"
  /\ rows[RunOf(w)].status = "QUEUED"
  /\ GotoWith(w, "execute", rows[RunOf(w)])
  /\ UNCHANGED store

\* A run that is missing, or not queued any more, is acknowledged.
LoadOther(w) ==
  /\ sub[w].pc = "load"
  /\ rows[RunOf(w)].status # "QUEUED" \/ "db" \in Faults
  /\ Goto(w, "ack")
  /\ UNCHANGED store

\* GetDefinition or GetTemplateByID returns an error: acknowledged as well.
NoExecutable(w) ==
  /\ sub[w].pc = "execute"
  /\ ~Exists(RunOf(w)) \/ "db" \in Faults
  /\ Goto(w, "ack")
  /\ UNCHANGED store

ExecutesEks(w) == sub[w].pc = "execute" /\ RunOf(w) \notin SparkRuns

\* A bug: acknowledging a run that can never be executed as it is.
RejectedAcked(w) ==
  /\ ExecutesEks(w)
  /\ RunOf(w) \in BadCluster
  /\ Goto(w, "ack")
  /\ UNCHANGED store

\* Execute returns a non-retryable error, for want of a client or because
\* Kubernetes finds the job invalid; the worker stops the run.
ExecuteRejected(w) ==
  /\ ExecutesEks(w)
  /\ RunOf(w) \in BadCluster
  /\ GotoWith(w, "update", [sub[w].run EXCEPT !.status = "STOPPED"])
  /\ UNCHANGED store

\* Execute finds the job "already exists": the run is handed back as loaded.
ExecuteExists(w) ==
  /\ ExecutesEks(w)
  /\ jobs[RunOf(w)] # "absent"
  /\ Goto(w, "update")
  /\ UNCHANGED store

CreateJob(r) ==
  /\ jobs[r] = "absent" /\ launched[r] < MaxLaunches
  /\ jobs' = [jobs EXCEPT ![r] = "pending"]
  /\ launched' = [launched EXCEPT ![r] = @ + 1]
  /\ UNCHANGED <<rows, body, queue, old>>

\* The job is created; getPodName lists pods only if queued_at is known.
ExecuteCreated(w) ==
  /\ ExecutesEks(w)
  /\ CreateJob(RunOf(w))
  /\ \E found \in {FALSE, sub[w].run.queuedAt} :
       GotoWith(w, "update", [sub[w].run EXCEPT !.status = "RUNNING",
                                                !.podName = @ \/ found])

\* A bug: treating a retryable error like a success.
ErrorAcked(w) ==
  /\ ExecutesEks(w) /\ "cluster" \in Faults
  /\ Goto(w, "ack")
  /\ UNCHANGED store

\* A retryable error, before or after the job was created: no ack.
ExecuteRetryable(w) ==
  /\ ExecutesEks(w) /\ "cluster" \in Faults
  /\ UNCHANGED store \/ CreateJob(RunOf(w))
  /\ PollAgain(w)

\* UpdateRun with the launched run; its error is logged and no more.
UpdateLaunched(w) ==
  /\ sub[w].pc = "update"
  /\ \/ UpdateRun(RunOf(w), sub[w].run)
     \/ "db" \in Faults /\ UNCHANGED rows
  /\ Goto(w, "ack")
  /\ UNCHANGED <<body, queue, jobs, launched, old>>

\* Done deletes the message, unless SQS fails or the receipt was superseded.
Done(w) ==
  /\ sub[w].pc = "ack"
  /\ \/ queue' = [queue EXCEPT ![sub[w].msg] = "deleted"]
     \/ Faults \intersect {"queue", "slow"} # {} /\ UNCHANGED queue
  /\ PollAgain(w)
  /\ UNCHANGED <<rows, body, jobs, launched, old>>

SubmitCrash(w) ==
  /\ "crash" \in Faults /\ sub[w].pc # "poll"
  /\ PollAgain(w)
  /\ UNCHANGED store

\* SQS shows a message again that was not deleted in time.
VisibilityTimeout(m) ==
  /\ queue[m] = "hidden"
  /\ "slow" \in Faults \/ \A w \in Submitters : sub[w].msg # m
  /\ queue' = [queue EXCEPT ![m] = "visible"]
  /\ UNCHANGED <<rows, body, jobs, launched, old, sub>>

Execute(w) == ExecuteRejected(w) \/ ExecuteExists(w) \/ ExecuteCreated(w)

SubmitAdvances(w) ==
  \/ \E m \in Msgs : ReceiveRun(w, m)
  \/ LoadQueued(w) \/ LoadOther(w)
  \/ NoExecutable(w) \/ Execute(w) \/ UpdateLaunched(w) \/ Done(w)

SubmitStep ==
  \/ \E w \in Submitters :
       SubmitAdvances(w) \/ ExecuteRetryable(w) \/ SubmitCrash(w)
  \/ \E m \in Msgs : VisibilityTimeout(m)
=============================================================================
