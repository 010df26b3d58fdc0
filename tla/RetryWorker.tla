----------------------------- MODULE RetryWorker -----------------------------
(***************************************************************************)
(* The retry workers (worker/retry_worker.go): list the runs that need a   *)
(* retry, set each back to QUEUED, then put it on the queue again.         *)
(***************************************************************************)
EXTENDS FlotillaStore

CONSTANT Retriers

VARIABLE ret  \* per worker: its next call, the runs listed, the run in hand

RetryStates == {"list", "update", "enqueue"}

RetryLocal == [pc : RetryStates, todo : SUBSET Runs, run : Runs \union {NoRun}]

RetryTypeOK == ret \in [Retriers -> RetryLocal]

Listing == [pc |-> "list", todo |-> {}, run |-> NoRun]

RetryInit == ret = [w \in Retriers |-> Listing]

\* The list is that of the EKS engine alone.
ListNeedsRetry(w) ==
  LET needy == {r \in Runs \ SparkRuns : rows[r].status = "NEEDS_RETRY"} IN
  /\ ret[w].pc = "list" /\ needy # {}
  /\ ret' = [ret EXCEPT ![w].pc = "update", ![w].todo = needy]
  /\ UNCHANGED store

\* UpdateRun of the status alone: queued_at stays that of the first queuing.
SetQueued(w) ==
  \E r \in ret[w].todo :
    /\ ret[w].pc = "update"
    /\ UpdateRun(r, Blank("QUEUED"))
    /\ ret' = [ret EXCEPT ![w] = [pc |-> "enqueue", todo |-> @.todo \ {r}, run |-> r]]
    /\ UNCHANGED <<body, queue, jobs, launched, old>>

EnqueueAgain(w) ==
  /\ ret[w].pc = "enqueue"
  /\ Enqueue(ret[w].run)
  /\ ret' = [ret EXCEPT ![w] = IF @.todo = {} THEN Listing
                               ELSE [@ EXCEPT !.pc = "update", !.run = NoRun]]
  /\ UNCHANGED <<rows, jobs, launched, old>>

\* An error of either call ends the round; so does the death of the process.
RetryFails(w) ==
  /\ ret[w].pc # "list" /\ "retry" \in Faults
  /\ ret' = [ret EXCEPT ![w] = Listing]
  /\ UNCHANGED store

RetryAdvances(w) == ListNeedsRetry(w) \/ SetQueued(w) \/ EnqueueAgain(w)

RetryStep == \E w \in Retriers : RetryAdvances(w) \/ RetryFails(w)
=============================================================================
