------------------------ MODULE FlotillaSafetyProofs ------------------------
(***************************************************************************)
(* The safety properties of Flotilla that hold under conditions on reports *)
(* and faults, for every set of runs, messages and workers.  Workers act   *)
(* on copies of rows, so each invariant is one of the copies too.  What a  *)
(* step may do is stated once, and all the theorems cite it: to what a     *)
(* worker has in hand (SubmitHands, PollHands, EventHands, TrailHands), to *)
(* a copy (ReadingStep, WritingStep), to a row (RowStep), to a job         *)
(* (JobStep) and to a notification (NewsStep).                             *)
(***************************************************************************)
EXTENDS FlotillaProofs

\* Some worker has read this row of the run and is still to work on it ...
Reading(r, row) ==
  \/ \E w \in Submitters : sub[w].pc = "execute" /\ RunOf(w) = r /\ sub[w].run = row
  \/ \E p \in Pollers : pol[p].pc \in {"reload", "fetch"} /\ pol[p].id = r /\ pol[p].run = row

\* ... or is about to write it.
Writing(r, row) ==
  \/ \E w \in Submitters : sub[w].pc = "update" /\ RunOf(w) = r /\ sub[w].run = row
  \/ \E p \in Pollers : pol[p].pc = "save" /\ pol[p].id = r /\ pol[p].run = row
  \/ \E e \in EventWorkers : evt[e].pc = "save" /\ evt[e].run = r /\ evt[e].row = row
  \/ \E c \in Trackers : trl[c].pc = "save" /\ trl[c].run = r /\ trl[c].row = row

Executing(r) == \E w \in Submitters : sub[w].pc = "execute" /\ RunOf(w) = r

-----------------------------------------------------------------------------
(* What a step may do. *)

\* A step keeps the invariant of FlotillaProofs, and lets the store grow.
LEMMA NextGrows ==
  ASSUME IInv, [Next]_vars
  PROVE  IInv' /\ Grows
<1>1. IInv'
  BY IInvNext
<1>2. Grows
  BY RequestsKeep, SubmitKeeps, RetryKeeps, TerminateKeeps, StatusKeeps, EventsKeep,
     TrailKeeps, EnvironmentKeeps, StoreStutters
  DEF Next, vars, IInv
<1> QED BY <1>1, <1>2

SubmitMove(w) ==
  \/ SubmitAdvances(w) \/ ExecuteRetryable(w) \/ SubmitCrash(w)
  \/ ExecuteSpark(w) \/ ExecuteSparkFails(w)

PollMove(p) ==
  \/ PollAdvances(p) \/ FetchError(p) \/ SaveFails(p) \/ PollCrash(p)
  \/ \E r \in Runs : ListAndLock(p, r) \/ (LongAfter(r) /\ CleanupRun(p, r))

EventMove(e) ==
  \/ EventAdvances(e) \/ SaveNotedFails(e) \/ EventCrash(e)
  \/ \E r \in Runs, k \in News : Take(e, r, k)

\* The locals of a worker change by its own moves, in which all the other
\* components keep theirs.
LEMMA SubmitMoves ==
  ASSUME IInv, [Next]_vars, NEW w \in Submitters
  PROVE  \/ sub'[w] = sub[w]
         \/ SubmitMove(w) /\ OfSubmit
<1>1. CASE (SubmitStep \/ EmrSubmitStep) /\ OfSubmit
  <2>1. CASE UNCHANGED sub
    BY <2>1
  <2>2. ASSUME NEW v \in Submitters, SubmitMove(v), v # w
        PROVE  sub'[w] = sub[w]
    BY <2>2
    DEF SubmitMove, SubmitAdvances, ReceiveRun, LoadQueued, LoadOther, NoExecutable,
        Execute, ExecuteRejected, ExecuteExists, ExecuteCreated, UpdateLaunched, Done,
        ExecuteRetryable, SubmitCrash, ExecuteSpark, ExecuteSparkFails, Goto, GotoWith,
        PollAgain, IInv, SubmitTypeOK
  <2>3. (\E v \in Submitters : SubmitMove(v)) \/ UNCHANGED sub
    BY <1>1 DEF SubmitStep, EmrSubmitStep, SubmitMove, VisibilityTimeout
  <2> QED BY <1>1, <2>1, <2>2, <2>3
<1>2. CASE UNCHANGED sub
  BY <1>2
<1> QED
  BY <1>1, <1>2
  DEF Next, vars, OfRequests, OfRetry, OfTerminate, OfStatus, OfEvents, OfTrail,
      OfEnvironment

\* The same for a status worker ...
LEMMA PollMoves ==
  ASSUME IInv, [Next]_vars, NEW p \in Pollers
  PROVE  \/ pol'[p] = pol[p] /\ cleanup'[p] = cleanup[p]
         \/ PollMove(p) /\ OfStatus
<1>1. CASE (StatusStep \/ Cleanup) /\ OfStatus
  <2>1. ASSUME NEW q \in Pollers, PollMove(q), q # p
        PROVE  pol'[p] = pol[p] /\ cleanup'[p] = cleanup[p]
    BY <2>1
    DEF PollMove, PollAdvances, Reload, FetchNotFound, FetchJob, Outcome, SavePolled,
        FetchError, SaveFails, PollCrash, ListAndLock, CleanupRun, Return, IInv,
        StatusTypeOK
  <2>2. \E q \in Pollers : PollMove(q)
    BY <1>1 DEF StatusStep, Cleanup, TwoMinutesLater, PollMove
  <2> QED BY <1>1, <2>1, <2>2
<1>2. CASE UNCHANGED statusVars
  BY <1>2 DEF statusVars
<1> QED
  BY <1>1, <1>2
  DEF Next, vars, OfRequests, OfSubmit, OfRetry, OfTerminate, OfEvents, OfTrail,
      OfEnvironment

\* ... an events worker ...
LEMMA EventMoves ==
  ASSUME IInv, [Next]_vars, NEW e \in EventWorkers
  PROVE  \/ evt'[e] = evt[e]
         \/ EventMove(e) /\ OfEvents
<1>1. CASE EventStep /\ OfEvents
  <2>1. CASE UNCHANGED evt
    BY <2>1
  <2>2. ASSUME NEW f \in EventWorkers, EventMove(f), f # e
        PROVE  evt'[e] = evt[e]
    BY <2>2
    DEF EventMove, EventAdvances, SaveNoted, SaveNotedFails, CancelNoisy, DeleteNotice,
        EventCrash, Take, Receive, Then, IInv, EventTypeOK
  <2>3. (\E f \in EventWorkers : EventMove(f)) \/ UNCHANGED evt
    BY <1>1 DEF EventStep, EventMove, TakeUnknown, LosePodEvent, Redeliver, Notify
  <2> QED BY <1>1, <2>1, <2>2, <2>3
<1>2. CASE UNCHANGED eventVars
  BY <1>2 DEF eventVars
<1> QED
  BY <1>1, <1>2
  DEF Next, vars, OfRequests, OfSubmit, OfRetry, OfTerminate, OfStatus, OfTrail,
      OfEnvironment

\* ... and a cloudtrail worker.
LEMMA TrailMoves ==
  ASSUME IInv, [Next]_vars, NEW c \in Trackers
  PROVE  \/ trl'[c] = trl[c]
         \/ SaveTracked(c) \/ TrailFails(c) \/ \E r \in Runs : LoadTracked(c, r)
<1>1. CASE TrailStep /\ OfTrail
  <2>1. ASSUME NEW d \in Trackers, d # c,
               SaveTracked(d) \/ TrailFails(d) \/ \E r \in Runs : LoadTracked(d, r)
        PROVE  trl'[c] = trl[c]
    BY <2>1 DEF SaveTracked, TrailFails, LoadTracked, IInv, TrailTypeOK
  <2> QED BY <1>1, <2>1 DEF TrailStep
<1>2. CASE UNCHANGED trl
  BY <1>2
<1> QED
  BY <1>1, <1>2
  DEF Next, vars, OfRequests, OfSubmit, OfRetry, OfTerminate, OfStatus, OfEvents,
      OfEnvironment

-----------------------------------------------------------------------------
(* What a step may put in a worker's hands. *)

\* Execute, of either engine, makes this row of the run as it was loaded.
Executed(r, run, row) ==
  \/ /\ r \in BadCluster \ SparkRuns /\ UNCHANGED store
     /\ row = [run EXCEPT !.status = "STOPPED"]
  \/ /\ r \notin SparkRuns /\ jobs[r] # "absent" /\ UNCHANGED store
     /\ row = run
  \/ /\ r \notin SparkRuns /\ CreateJob(r)
     /\ \E found \in BOOLEAN : row = [run EXCEPT !.status = "RUNNING", !.podName = @ \/ found]
  \/ /\ r \in SparkRuns /\ StartJobRun(r)
     /\ row = [run EXCEPT !.status = "QUEUED", !.spark = "saved"]
  \/ /\ r \in SparkRuns
     /\ \/ r \in BadCluster /\ UNCHANGED store
        \/ "cluster" \in Faults /\ StartJobRun(r)
     /\ row = Stop(run)

\* A message in hand carries the same run after a step.
LEMMA RunOfStays ==
  ASSUME IInv, [Next]_vars, NEW w \in Submitters, sub[w].pc # "poll", sub'[w].msg = sub[w].msg
  PROVE  RunOf(w)' = RunOf(w) /\ RunOf(w) \in Runs
<1>1. sub[w].msg \in Msgs /\ queue[sub[w].msg] # "unsent" /\ RunOf(w) \in Runs
  BY RunOfSaved DEF IInv
<1> QED BY <1>1, NextGrows DEF Grows, RunOf

\* What a submit worker may come to have in hand, of run r.
SubmitHand(w, r) ==
  /\ sub'[w].pc = "execute" =>
       \/ sub'[w] = sub[w]
       \/ rows[r].status = "QUEUED" /\ sub'[w].run = rows[r] /\ UNCHANGED store
  /\ sub'[w].pc = "update" =>
       \/ sub'[w] = sub[w]
       \/ sub[w].pc = "execute" /\ Executed(r, sub[w].run, sub'[w].run)
  /\ sub'[w].pc = "ack" =>
       \/ sub'[w] = sub[w]
       \/ UNCHANGED store /\ (rows[r].status # "QUEUED" \/ "db" \in Faults)
       \/ /\ sub[w].pc = "update" /\ UNCHANGED <<body, queue, jobs, launched, old>>
          /\ \/ UpdateRun(r, sub[w].run)
             \/ "db" \in Faults /\ UNCHANGED rows

\* A submit worker executes a run it found QUEUED, writes what Execute made of
\* it, and acknowledges one that was not QUEUED or that it has written.
LEMMA SubmitHands ==
  ASSUME IInv, [Next]_vars, NEW w \in Submitters
  PROVE  /\ sub'[w].pc \notin {"poll", "load"} => RunOf(w)' = RunOf(w) /\ RunOf(w) \in Runs
         /\ SubmitHand(w, RunOf(w))
<1> DEFINE r == RunOf(w)
<1> USE DEF SubmitHand
<1>1. sub \in [Submitters -> SubmitLocal] /\ sub[w] \in SubmitLocal /\ Polling.pc = "poll"
  BY DEF IInv, SubmitTypeOK, Polling
<1>2. CASE sub'[w] = sub[w]
  <2>1. sub'[w].pc \notin {"poll", "load"} => RunOf(w)' = r /\ r \in Runs
    BY <1>2, RunOfStays
  <2> QED BY <1>2, <2>1
<1>3. CASE \/ \E m \in Msgs : ReceiveRun(w, m)
           \/ ExecuteRetryable(w) \/ SubmitCrash(w) \/ Done(w)
  <2>1. sub'[w].pc \in {"poll", "load"}
    BY <1>1, <1>3
    DEF ReceiveRun, ExecuteRetryable, SubmitCrash, Done, PollAgain, Polling
  <2> QED BY <2>1
<1>4. ASSUME sub[w].pc # "poll", sub'[w].msg = sub[w].msg, SubmitHand(w, r)
      PROVE  /\ sub'[w].pc \notin {"poll", "load"} => RunOf(w)' = r /\ r \in Runs
             /\ SubmitHand(w, r)
  BY <1>4, RunOfStays
<1>5. CASE LoadQueued(w)
  BY <1>1, <1>4, <1>5 DEF LoadQueued, GotoWith
<1>6. CASE LoadOther(w)
  BY <1>1, <1>4, <1>6 DEF LoadOther, Goto
<1>7. CASE NoExecutable(w)
  <2>1. Exists(r) \/ rows[r].status # "QUEUED"
    BY DEF Exists, Statuses
  <2> QED BY <1>1, <1>4, <1>7, <2>1 DEF NoExecutable, Goto, Exists, Statuses
<1>8. CASE UpdateLaunched(w)
  BY <1>1, <1>4, <1>8 DEF UpdateLaunched, Goto
<1>9. ASSUME sub[w].pc = "execute", NEW row, GotoWith(w, "update", row),
             Executed(r, sub[w].run, row)
      PROVE  sub[w].pc # "poll" /\ sub'[w].msg = sub[w].msg /\ SubmitHand(w, r)
  BY <1>1, <1>9 DEF GotoWith
<1>10. CASE ExecuteRejected(w)
  <2>1. Executed(r, sub[w].run, [sub[w].run EXCEPT !.status = "STOPPED"])
    BY <1>10 DEF ExecuteRejected, ExecutesEks, Executed
  <2> QED BY <1>4, <1>9, <1>10, <2>1 DEF ExecuteRejected, ExecutesEks
<1>11. CASE ExecuteExists(w)
  <2>1. Executed(r, sub[w].run, sub[w].run) /\ GotoWith(w, "update", sub[w].run)
    BY <1>11, GotoIsGotoWith DEF ExecuteExists, ExecutesEks, Executed, IInv
  <2> QED BY <1>4, <1>9, <1>11, <2>1 DEF ExecuteExists, ExecutesEks
<1>12. CASE ExecuteCreated(w)
  <2>1. sub[w].run.queuedAt \in BOOLEAN
    BY <1>1 DEF SubmitLocal, Row, Columns
  <2>2. PICK found \in BOOLEAN :
          GotoWith(w, "update", [sub[w].run EXCEPT !.status = "RUNNING",
                                                   !.podName = @ \/ found])
    BY <1>12, <2>1 DEF ExecuteCreated
  <2>3. Executed(r, sub[w].run, [sub[w].run EXCEPT !.status = "RUNNING",
                                                   !.podName = @ \/ found])
    BY <1>12 DEF ExecuteCreated, ExecutesEks, Executed
  <2> QED BY <1>4, <1>9, <1>12, <2>2, <2>3 DEF ExecuteCreated, ExecutesEks
<1>13. CASE ExecuteSpark(w)
  <2>1. Executed(r, sub[w].run, [sub[w].run EXCEPT !.status = "QUEUED", !.spark = "saved"])
    BY <1>13 DEF ExecuteSpark, ExecutesEmr, Executed
  <2> QED BY <1>4, <1>9, <1>13, <2>1 DEF ExecuteSpark, ExecutesEmr
<1>14. CASE ExecuteSparkFails(w)
  <2>1. Executed(r, sub[w].run, Stop(sub[w].run))
    BY <1>14 DEF ExecuteSparkFails, ExecutesEmr, Executed
  <2> QED BY <1>4, <1>9, <1>14, <2>1 DEF ExecuteSparkFails, ExecutesEmr
<1> QED
  BY <1>2, <1>3, <1>4, <1>5, <1>6, <1>7, <1>8, <1>10, <1>11, <1>12, <1>13, <1>14, SubmitMoves
  DEF SubmitMove, SubmitAdvances, Execute

\* The rows with a status worker: read as it was, or made from the job.
Fetched(r, run, row) ==
  \/ jobs[r] = "absent" /\ old[r] /\ row = [run EXCEPT !.status = "STOPPED"]
  \/ /\ jobs[r] # "absent"
     /\ \E pod, lag \in BOOLEAN : row = FetchUpdateStatus(run, jobs[r], pod, lag)

PollHand(p) ==
  /\ pol'[p].pc \in {"reload", "fetch"} =>
       \/ pol[p].pc \in {"reload", "fetch"} /\ pol'[p].id = pol[p].id /\ pol'[p].run = pol[p].run
       \/ ToPoll(pol'[p].id) /\ pol'[p].run = rows[pol'[p].id] /\ UNCHANGED store
  /\ pol'[p].pc = "save" =>
       \/ pol'[p] = pol[p]
       \/ /\ pol[p].pc = "fetch" /\ pol'[p].id = pol[p].id /\ UNCHANGED store
          /\ Fetched(pol[p].id, pol[p].run, pol'[p].run)

\* A status worker polls a run it listed, saves what it made of the row it
\* listed, and cleans up after a run it is about to save as over.
LEMMA PollHands ==
  ASSUME IInv, [Next]_vars, NEW p \in Pollers
  PROVE  /\ pol'[p].pc # "idle" => pol'[p].id \in Runs
         /\ PollHand(p)
         /\ \A r \in cleanup'[p] :
              \/ r \in cleanup[p]
              \/ /\ pol[p].pc = "fetch" /\ pol[p].id = r /\ pol'[p].pc = "save" /\ pol'[p].id = r
                 /\ pol'[p].run.status # pol[p].run.status /\ pol'[p].run.exitCode
<1> USE DEF PollHand
<1>1. pol \in [Pollers -> PollLocal] /\ pol[p] \in PollLocal /\ cleanup \in [Pollers -> SUBSET Runs]
  BY DEF IInv, StatusTypeOK
<1>2. pol'[p].pc # "idle" => pol'[p].id \in Runs
  BY NextGrows DEF IInv, StatusInv
<1>3. NotPolling.pc = "idle"
  BY DEF NotPolling
<1>4. CASE pol'[p] = pol[p] /\ cleanup'[p] = cleanup[p]
  BY <1>2, <1>4
<1>5. ASSUME NEW r \in Runs, ListAndLock(p, r)
      PROVE  PollHand(p) /\ cleanup'[p] = cleanup[p]
  BY <1>1, <1>5 DEF ListAndLock
<1>6. CASE Reload(p) \/ SavePolled(p) \/ FetchError(p) \/ SaveFails(p)
  BY <1>1, <1>2, <1>3, <1>6 DEF Reload, SavePolled, FetchError, SaveFails, Return, PollLocal
<1>7. CASE PollCrash(p)
  BY <1>1, <1>2, <1>3, <1>7 DEF PollCrash, Return
<1>8. CASE \E r \in Runs : LongAfter(r) /\ CleanupRun(p, r)
  BY <1>1, <1>2, <1>8 DEF CleanupRun
<1>9. CASE FetchNotFound(p)
  <2>1. CASE old[pol[p].id]
    BY <1>1, <1>2, <1>9, <2>1 DEF FetchNotFound, Fetched, PollLocal
  <2>2. CASE ~old[pol[p].id]
    BY <1>1, <1>2, <1>3, <1>9, <2>2 DEF FetchNotFound
  <2> QED BY <2>1, <2>2
<1>10. ASSUME NEW lag \in BOOLEAN, FetchJob(p, lag)
       PROVE  PollHand(p) /\ \A r \in cleanup'[p] :
              \/ r \in cleanup[p]
              \/ /\ pol[p].pc = "fetch" /\ pol[p].id = r /\ pol'[p].pc = "save" /\ pol'[p].id = r
                 /\ pol'[p].run.status # pol[p].run.status /\ pol'[p].run.exitCode
  <2>1. PICK pod, write \in BOOLEAN :
          Outcome(p, FetchUpdateStatus(pol[p].run, jobs[pol[p].id], pod, lag), write)
    BY <1>10 DEF FetchJob
  <2> DEFINE upd == FetchUpdateStatus(pol[p].run, jobs[pol[p].id], pod, lag)
  <2>2. Fetched(pol[p].id, pol[p].run, upd)
    BY <1>10 DEF FetchJob, Fetched
  <2> HIDE DEF upd
  <2>3. Outcome(p, upd, write)
    BY <2>1 DEF upd
  <2>4. \/ pol'[p] = NotPolling /\ cleanup'[p] = cleanup[p]
        \/ /\ pol'[p] = [pol[p] EXCEPT !.pc = "save", !.run = upd]
           /\ \A r \in cleanup'[p] : r \in cleanup[p] \/
                (r = pol[p].id /\ upd.status # pol[p].run.status /\ upd.exitCode)
    BY <1>1, <2>3 DEF Outcome
  <2>5. CASE pol'[p] = NotPolling /\ cleanup'[p] = cleanup[p]
    BY <1>3, <2>5
  <2>6. CASE /\ pol'[p] = [pol[p] EXCEPT !.pc = "save", !.run = upd]
             /\ \A r \in cleanup'[p] : r \in cleanup[p] \/
                  (r = pol[p].id /\ upd.status # pol[p].run.status /\ upd.exitCode)
    <3>1. pol'[p].pc = "save" /\ pol'[p].id = pol[p].id /\ pol'[p].run = upd
      BY <1>1, <2>6 DEF PollLocal
    <3> QED BY <1>10, <2>2, <2>6, <3>1 DEF FetchJob
  <2> QED BY <2>4, <2>5, <2>6
<1> QED
  BY <1>2, <1>4, <1>5, <1>6, <1>7, <1>8, <1>9, <1>10, PollMoves DEF PollMove, PollAdvances

EventHand(e) ==
  /\ evt'[e].pc = "save" =>
       \/ evt'[e] = evt[e]
       \/ \E r \in Runs, k \in News :
            /\ Take(e, r, k) /\ UNCHANGED store
            /\ evt'[e] = [pc |-> "save", run |-> r, kind |-> k, row |-> Noted(rows[r], k)]
  /\ evt'[e].pc \in {"cancel", "ack"} =>
       \/ evt'[e] = evt[e]
       \/ /\ evt'[e].run = evt[e].run /\ evt'[e].kind = evt[e].kind
          /\ \/ SaveNoted(e) \/ (SaveNotedFails(e) /\ evt[e].kind \in PodNews)
             \/ CancelNoisy(e) /\ evt'[e].pc = "ack"

\* An events worker saves what it made of the row it read and goes on with the
\* same notification.
LEMMA EventHands ==
  ASSUME IInv, [Next]_vars, NEW e \in EventWorkers
  PROVE  EventHand(e)
<1> USE DEF EventHand
<1>1. evt \in [EventWorkers -> EventLocal] /\ evt[e] \in EventLocal /\ Receiving.pc = "receive"
  BY DEF IInv, EventTypeOK, Receiving
<1>2. CASE evt'[e] = evt[e]
  BY <1>2
<1>3. CASE DeleteNotice(e) \/ EventCrash(e)
  BY <1>1, <1>3 DEF DeleteNotice, EventCrash, Receive
<1>4. CASE SaveNoted(e)
  BY <1>1, <1>4 DEF SaveNoted, Then, EventLocal
<1>5. CASE SaveNotedFails(e)
  BY <1>1, <1>5 DEF SaveNotedFails, AtLimit, Then, Receive, EventLocal
<1>6. CASE CancelNoisy(e)
  BY <1>1, <1>6 DEF CancelNoisy, Then, EventLocal
<1>7. ASSUME NEW r \in Runs, NEW k \in News, Take(e, r, k)
      PROVE  EventHand(e)
  BY <1>1, <1>7 DEF Take
<1> QED
  BY <1>2, <1>3, <1>4, <1>5, <1>6, <1>7, EventMoves DEF EventMove, EventAdvances

\* A cloudtrail worker writes a row as it was when the worker read it.
LEMMA TrailHands ==
  ASSUME IInv, [Next]_vars, NEW c \in Trackers, trl'[c].pc = "save"
  PROVE  \/ trl'[c] = trl[c]
         \/ /\ launched[trl'[c].run] > 0 /\ Exists(trl'[c].run)
            /\ trl'[c].row = rows[trl'[c].run] /\ UNCHANGED store
<1>1. trl \in [Trackers -> TrailLocal] /\ Untracked.pc = "load"
  BY DEF IInv, TrailTypeOK, Untracked
<1>2. CASE SaveTracked(c) \/ TrailFails(c)
  BY <1>1, <1>2 DEF SaveTracked, TrailFails
<1>3. ASSUME NEW r \in Runs, LoadTracked(c, r)
      PROVE  /\ launched[trl'[c].run] > 0 /\ Exists(trl'[c].run)
             /\ trl'[c].row = rows[trl'[c].run] /\ UNCHANGED store
  BY <1>1, <1>3 DEF LoadTracked
<1> QED BY <1>2, <1>3, TrailMoves
-----------------------------------------------------------------------------
(* What a step may do to copies of a row, to the row, and to the job. *)

\* A copy that is read is one from before, or the row as it is.
LEMMA ReadingStep ==
  ASSUME IInv, [Next]_vars, NEW r \in Runs, NEW row, Reading(r, row)'
  PROVE  \/ Reading(r, row)
         \/ row = rows[r] /\ Exists(r) /\ UNCHANGED store
<1>1. ASSUME NEW w \in Submitters, sub'[w].pc = "execute", RunOf(w)' = r, sub'[w].run = row
      PROVE  \/ Reading(r, row)
             \/ row = rows[r] /\ Exists(r) /\ UNCHANGED store
  <2>1. RunOf(w) = r /\ SubmitHand(w, r)
    BY <1>1, SubmitHands
  <2> QED BY <1>1, <2>1 DEF SubmitHand, Reading, Exists, Statuses
<1>2. ASSUME NEW p \in Pollers, pol'[p].pc \in {"reload", "fetch"}, pol'[p].id = r,
             pol'[p].run = row
      PROVE  \/ Reading(r, row)
             \/ row = rows[r] /\ Exists(r) /\ UNCHANGED store
  <2>1. PollHand(p)
    BY PollHands
  <2> QED BY <1>2, <2>1 DEF PollHand, Reading, Exists, ToPoll
<1> QED BY <1>1, <1>2 DEF Reading

\* The ways in which a row to be written is made.
Made(r, row) ==
  \/ \E w \in Submitters :
       sub[w].pc = "execute" /\ RunOf(w) = r /\ Executed(r, sub[w].run, row)
  \/ \E p \in Pollers :
       /\ pol[p].pc = "fetch" /\ pol[p].id = r /\ Fetched(r, pol[p].run, row)
       /\ UNCHANGED store
  \/ \E e \in EventWorkers, k \in News :
       Take(e, r, k) /\ row = Noted(rows[r], k) /\ UNCHANGED store
  \/ Trackers # {} /\ launched[r] > 0 /\ Exists(r) /\ row = rows[r] /\ UNCHANGED store

\* A copy that is to be written is one from before, or was just made.
LEMMA WritingStep ==
  ASSUME IInv, [Next]_vars, NEW r \in Runs, NEW row, Writing(r, row)'
  PROVE  Writing(r, row) \/ Made(r, row)
<1>1. ASSUME NEW w \in Submitters, sub'[w].pc = "update", RunOf(w)' = r, sub'[w].run = row
      PROVE  Writing(r, row) \/ Made(r, row)
  <2>1. RunOf(w) = r /\ SubmitHand(w, r)
    BY <1>1, SubmitHands
  <2> QED BY <1>1, <2>1 DEF SubmitHand, Writing, Made
<1>2. ASSUME NEW p \in Pollers, pol'[p].pc = "save", pol'[p].id = r, pol'[p].run = row
      PROVE  Writing(r, row) \/ Made(r, row)
  <2>1. PollHand(p)
    BY PollHands
  <2> QED BY <1>2, <2>1 DEF PollHand, Writing, Made
<1>3. ASSUME NEW e \in EventWorkers, evt'[e].pc = "save", evt'[e].run = r, evt'[e].row = row
      PROVE  Writing(r, row) \/ Made(r, row)
  <2>1. EventHand(e)
    BY EventHands
  <2>2. CASE evt'[e] = evt[e]
    BY <1>3, <2>2 DEF Writing
  <2>3. ASSUME NEW x \in Runs, NEW k \in News, Take(e, x, k) /\ UNCHANGED store,
               evt'[e] = [pc |-> "save", run |-> x, kind |-> k, row |-> Noted(rows[x], k)]
        PROVE  Made(r, row)
    <3>1. x = r /\ row = Noted(rows[r], k)
      BY <1>3, <2>3
    <3> QED BY <2>3, <3>1 DEF Made
  <2> QED BY <1>3, <2>1, <2>2, <2>3 DEF EventHand
<1>4. ASSUME NEW c \in Trackers, trl'[c].pc = "save", trl'[c].run = r, trl'[c].row = row
      PROVE  Writing(r, row) \/ Made(r, row)
  BY <1>4, TrailHands DEF Writing, Made
<1> QED BY <1>1, <1>2, <1>3, <1>4 DEF Writing

\* What UpdateRun may be called with for a run.
Source(r, o) ==
  \/ Writing(r, o)
  \/ o = Blank("QUEUED") /\ \E w \in Retriers : r \in ret[w].todo
  \/ o = [Blank(NoStatus) EXCEPT !.queuedAt = TRUE]
  \/ /\ MaxReports > 0
     /\ \E s \in ReportStatuses, e \in BOOLEAN : o = Report(s, e)
  \/ o = Report("STOPPED", TRUE) /\ \E t \in Terminators : trm[t].pc = "stop" /\ trm[t].run = r

Updated(r, o) ==
  /\ Source(r, o) /\ o \in Updates /\ UpdateRun(r, o)
  /\ UNCHANGED <<jobs, launched, old>>

\* A step writes at most one row, with UpdateRun but for the requests that
\* create and delete it; jobs are left alone meanwhile.
LEMMA TableStep ==
  ASSUME IInv, [Next]_vars
  PROVE  \/ UNCHANGED rows
         \/ \E r \in Runs, o \in Updates : Updated(r, o)
         \/ \E r \in Runs : SaveRun(r) \/ DeleteDefinition(r)
<1>1. CASE Requests
  <2>1. PICK r \in Runs : RequestStep(r)
    BY <1>1 DEF Requests
  <2>2. CASE StampQueuedAt(r)
    BY <2>2, BlankUpdates DEF StampQueuedAt, Source, Updated
  <2>3. CASE UpdateStatus(r)
    <3>1. PICK s \in ReportStatuses, e \in BOOLEAN : UpdateRun(r, Report(s, e))
      BY <2>3 DEF UpdateStatus
    <3>2. MaxReports > 0
      BY <2>3, RequestAssumption DEF UpdateStatus, IInv, RequestTypeOK
    <3>3. Report(s, e) \in Updates
      BY RequestAssumption, BlankUpdates
    <3> QED BY <2>3, <3>1, <3>2, <3>3 DEF UpdateStatus, Source, Updated
  <2> QED
    BY <2>1, <2>2, <2>3
    DEF RequestStep, CreateStep, EnqueueRun, RequestFails, store
<1>2. CASE SubmitStep \/ EmrSubmitStep
  <2>1. ASSUME NEW w \in Submitters, UpdateLaunched(w)
        PROVE  UNCHANGED rows \/ \E r \in Runs, o \in Updates : Updated(r, o)
    <3>1. sub[w].pc = "update" /\ sub[w].run \in Updates /\ RunOf(w) \in Runs
      BY <2>1, RunOfSaved, BlankUpdates DEF UpdateLaunched, IInv, SubmitLocal
    <3>2. Source(RunOf(w), sub[w].run)
      BY <3>1 DEF Source, Writing
    <3> QED BY <2>1, <3>1, <3>2 DEF UpdateLaunched, Updated
  <2> QED
    BY <1>2, <2>1
    DEF SubmitStep, EmrSubmitStep, SubmitAdvances, ReceiveRun, LoadQueued, LoadOther,
        NoExecutable, Execute, ExecuteRejected, ExecuteExists, ExecuteCreated, Done,
        ExecuteRetryable, SubmitCrash, VisibilityTimeout, ExecuteSpark, ExecuteSparkFails,
        StartJobRun, CreateJob, store
<1>3. CASE RetryStep
  <2>1. ASSUME NEW w \in Retriers, SetQueued(w)
        PROVE  \E r \in Runs, o \in Updates : Updated(r, o)
    <3>1. PICK r \in ret[w].todo : UpdateRun(r, Blank("QUEUED"))
      BY <2>1 DEF SetQueued
    <3>2. r \in Runs /\ Blank("QUEUED") \in Updates
      BY <3>1, BlankUpdates DEF IInv, RetryTypeOK, RetryLocal, Statuses
    <3> QED BY <2>1, <3>1, <3>2 DEF SetQueued, Source, Updated
  <2> QED
    BY <1>3, <2>1 DEF RetryStep, RetryAdvances, ListNeedsRetry, EnqueueAgain, RetryFails, store
<1>4. CASE TerminateStep \/ EmrTerminateStep
  <2>1. ASSUME NEW t \in Terminators, MarkStopped(t)
        PROVE  \E r \in Runs, o \in Updates : Updated(r, o)
    <3>1. trm[t].run \in Runs /\ Report("STOPPED", TRUE) \in Updates
      BY <2>1, BlankUpdates DEF MarkStopped, IInv, TerminateInv, Statuses
    <3> QED BY <2>1, <3>1 DEF MarkStopped, Source, Updated
  <2> QED
    BY <1>4, <2>1
    DEF TerminateStep, EmrTerminateStep, TerminateAdvances, DeleteJob, NoClient, LoadRun,
        TerminateFails, TerminateError, CancelJobRun, CancelRefused, store
<1>5. CASE StatusStep \/ Cleanup
  <2>1. ASSUME NEW p \in Pollers, SavePolled(p)
        PROVE  \E r \in Runs, o \in Updates : Updated(r, o)
    <3>1. pol[p].id \in Runs /\ pol[p].run \in Updates
      BY <2>1, BlankUpdates DEF SavePolled, IInv, StatusTypeOK, PollLocal, StatusInv
    <3> QED BY <2>1, <3>1 DEF SavePolled, Source, Writing, Updated
  <2> QED
    BY <1>5, <2>1
    DEF StatusStep, Cleanup, TwoMinutesLater, CleanupRun, PollAdvances, FetchError,
        SaveFails, PollCrash, ListAndLock, Reload, FetchNotFound, FetchJob, store
<1>6. CASE EventStep
  <2>1. ASSUME NEW e \in EventWorkers, SaveNoted(e)
        PROVE  \E r \in Runs, o \in Updates : Updated(r, o)
    <3>1. evt[e].run \in Runs /\ evt[e].row \in Updates
      BY <2>1, BlankUpdates DEF SaveNoted, IInv, EventTypeOK, EventLocal, EventInv
    <3> QED BY <2>1, <3>1 DEF SaveNoted, Source, Writing, Updated
  <2> QED
    BY <1>6, <2>1
    DEF EventStep, EventAdvances, CancelNoisy, DeleteNotice, SaveNotedFails, EventCrash,
        Take, TakeUnknown, LosePodEvent, Redeliver, Notify, store
<1>7. CASE TrailStep
  <2>1. ASSUME NEW c \in Trackers, SaveTracked(c)
        PROVE  \E r \in Runs, o \in Updates : Updated(r, o)
    <3>1. trl[c].run \in Runs /\ trl[c].row \in Updates
      BY <2>1, BlankUpdates DEF SaveTracked, IInv, TrailTypeOK, TrailLocal, TrailInv
    <3> QED BY <2>1, <3>1 DEF SaveTracked, Source, Writing, Updated
  <2> QED BY <1>7, <2>1 DEF TrailStep, TrailFails, LoadTracked, store
<1>8. CASE Environment \/ UNCHANGED vars
  BY <1>8
  DEF Environment, JobStarts, JobEnds, SparkJobFails, HalfHour, JobCollected, SetJob,
      vars, store
<1> QED BY <1>1, <1>2, <1>3, <1>4, <1>5, <1>6, <1>7, <1>8 DEF Next

\* The same for the row of one run.
LEMMA RowStep ==
  ASSUME IInv, [Next]_vars, NEW r \in Runs
  PROVE  \/ rows'[r] = rows[r]
         \/ /\ Exists(r) /\ rows[r] \in Row /\ UNCHANGED <<jobs, launched, old>>
            /\ \E o \in Updates : Source(r, o) /\ rows'[r] = UpdateWith(rows[r], o)
         \/ SaveRun(r) /\ rows[r].status = Unsaved /\ rows'[r] = NewRun(r)
         \/ DeleteDefinition(r) /\ rows'[r] = Blank(Deleted)
<1>1. rows \in [Runs -> Stored]
  BY DEF IInv, StoreInv, StoreTypeOK
<1>2. CASE UNCHANGED rows
  BY <1>2
<1>3. ASSUME NEW x \in Runs, NEW o \in Updates, Updated(x, o), rows'[r] # rows[r]
      PROVE  /\ Exists(r) /\ rows[r] \in Row /\ UNCHANGED <<jobs, launched, old>>
             /\ Source(r, o) /\ rows'[r] = UpdateWith(rows[r], o)
  <2>1. x = r /\ Exists(r) /\ rows'[r] = UpdateWith(rows[r], o)
    BY <1>1, <1>3 DEF Updated, UpdateRun
  <2>2. rows[r] \in Row
    BY <1>1, <2>1 DEF Exists, Row, Stored, Columns
  <2> QED BY <1>3, <2>1, <2>2 DEF Updated
<1>4. ASSUME NEW x \in Runs, SaveRun(x), rows'[r] # rows[r]
      PROVE  SaveRun(r) /\ rows[r].status = Unsaved /\ rows'[r] = NewRun(r)
  <2>1. x = r /\ rows'[r] = NewRun(r) /\ req[r] = "new"
    BY <1>1, <1>4 DEF SaveRun
  <2> QED BY <1>4, <2>1 DEF IInv, RequestInv, Saved
<1>5. ASSUME NEW x \in Runs, DeleteDefinition(x), rows'[r] # rows[r]
      PROVE  DeleteDefinition(r) /\ rows'[r] = Blank(Deleted)
  BY <1>1, <1>5 DEF DeleteDefinition
<1> QED BY <1>2, <1>3, <1>4, <1>5, TableStep

\* How the job of a run may go.
Removed(r) ==
  \/ \E t \in Terminators : DeleteJob(t) /\ trm[t].run = r
  \/ LongAfter(r) /\ JobCollected(r)
  \/ LongAfter(r) /\ \E p \in Pollers : CleanupRun(p, r)

\* A job is created by a worker that executes the run, changes while it is
\* live, or is removed; in none of these steps is a row written.
LEMMA JobStep ==
  ASSUME IInv, [Next]_vars, NEW r \in Runs
  PROVE  \/ jobs'[r] = jobs[r] /\ launched'[r] = launched[r]
         \/ /\ UNCHANGED <<rows, old>>
            /\ \/ CreateJob(r) /\ Executing(r)
               \/ Live(r) /\ jobs'[r] # "absent" /\ launched'[r] = launched[r]
               \/ Removed(r) /\ jobs'[r] = "absent" /\ launched'[r] = launched[r]
<1> DEFINE Same == jobs'[r] = jobs[r] /\ launched'[r] = launched[r]
           Change == /\ UNCHANGED <<rows, old>>
                     /\ \/ CreateJob(r) /\ Executing(r)
                        \/ Live(r) /\ jobs'[r] # "absent" /\ launched'[r] = launched[r]
                        \/ Removed(r) /\ jobs'[r] = "absent" /\ launched'[r] = launched[r]
<1>1. jobs \in [Runs -> JobStates] /\ launched \in [Runs -> Nat]
  BY DEF IInv, StoreInv, StoreTypeOK
<1>2. CASE UNCHANGED <<jobs, launched>>
  BY <1>2
<1>3. ASSUME NEW w \in Submitters, sub[w].pc = "execute", CreateJob(RunOf(w))
      PROVE  Same \/ Change
  <2>1. RunOf(w) = r => Executing(r)
    BY <1>3 DEF Executing
  <2>2. RunOf(w) # r => Same
    BY <1>1, <1>3 DEF CreateJob
  <2> QED BY <1>3, <2>1, <2>2 DEF CreateJob
<1>4. ASSUME NEW x \in Runs, CancelJob(x), UNCHANGED <<rows, launched, old>>
      PROVE  Same \/ Change
  BY <1>1, <1>4 DEF CancelJob, Live
<1>5. CASE SubmitStep \/ EmrSubmitStep
  BY <1>2, <1>3, <1>5
  DEF SubmitStep, EmrSubmitStep, SubmitAdvances, ReceiveRun, LoadQueued, LoadOther,
      NoExecutable, Execute, ExecuteRejected, ExecuteExists, ExecuteCreated, Done,
      ExecuteRetryable, SubmitCrash, VisibilityTimeout, ExecuteSpark, ExecuteSparkFails,
      StartJobRun, UpdateLaunched, ExecutesEks, ExecutesEmr, store
<1>6. CASE TerminateStep \/ EmrTerminateStep
  <2>1. ASSUME NEW t \in Terminators, CancelJobRun(t)
        PROVE  Same \/ Change
    BY <1>4, <2>1 DEF CancelJobRun, CancelsEmr, IInv, TerminateInv
  <2>2. ASSUME NEW t \in Terminators, DeleteJob(t)
        PROVE  Same \/ Change
    BY <1>1, <2>2 DEF DeleteJob, Removed
  <2> QED
    BY <1>2, <1>6, <2>1, <2>2
    DEF TerminateStep, EmrTerminateStep, TerminateAdvances, MarkStopped, NoClient, LoadRun,
        TerminateFails, TerminateError, CancelRefused, store
<1>7. CASE StatusStep \/ Cleanup
  <2>1. ASSUME NEW x \in Runs, NEW p \in Pollers, LongAfter(x), CleanupRun(p, x)
        PROVE  Same \/ Change
    BY <1>1, <2>1 DEF CleanupRun, Removed
  <2>2. CASE StatusStep
    BY <1>2, <2>2
    DEF StatusStep, PollAdvances, FetchError, SaveFails, PollCrash, ListAndLock, Reload,
        FetchNotFound, FetchJob, SavePolled, store
  <2> QED BY <1>7, <2>1, <2>2 DEF Cleanup, TwoMinutesLater
<1>8. CASE EventStep
  <2>1. ASSUME NEW e \in EventWorkers, CancelNoisy(e)
        PROVE  Same \/ Change
    BY <1>2, <1>4, <2>1 DEF CancelNoisy, IInv, EventInv
  <2> QED
    BY <1>2, <1>8, <2>1
    DEF EventStep, EventAdvances, SaveNoted, DeleteNotice, SaveNotedFails, EventCrash,
        Take, TakeUnknown, LosePodEvent, Redeliver, Notify, store
<1>9. CASE Environment
  <2>1. ASSUME NEW x \in Runs,
               JobStarts(x) \/ JobEnds(x) \/ SparkJobFails(x) \/ (LongAfter(x) /\ JobCollected(x))
        PROVE  Same \/ Change
    <3>1. CASE x = r
      BY <1>1, <2>1, <3>1
      DEF JobStarts, JobEnds, SparkJobFails, JobCollected, SetJob, Live, Removed
    <3>2. CASE x # r
      BY <1>1, <2>1, <3>2 DEF JobStarts, JobEnds, SparkJobFails, JobCollected, SetJob
    <3> QED BY <3>1, <3>2
  <2> QED BY <1>2, <1>9, <2>1 DEF Environment, HalfHour
<1> QED
  BY <1>2, <1>5, <1>6, <1>7, <1>8, <1>9
  DEF Next, Requests, RequestStep, CreateStep, SaveRun, EnqueueRun, StampQueuedAt,
      RequestFails, UpdateStatus, DeleteDefinition, RetryStep, RetryAdvances,
      ListNeedsRetry, SetQueued, EnqueueAgain, RetryFails, TrailStep, SaveTracked,
      TrailFails, LoadTracked, vars, store

\* The half hour passes by itself.
LEMMA OldStep ==
  ASSUME IInv, [Next]_vars, NEW r \in Runs, old'[r]
  PROVE  old[r] \/ (HalfHour(r) /\ UNCHANGED <<rows, jobs, launched>>)
<1>1. old \in [Runs -> BOOLEAN]
  BY DEF IInv, StoreInv, StoreTypeOK
<1>2. ASSUME NEW x \in Runs, HalfHour(x)
      PROVE  old[r] \/ (HalfHour(r) /\ UNCHANGED <<rows, jobs, launched>>)
  BY <1>1, <1>2 DEF HalfHour
<1>3. UNCHANGED old \/ \E x \in Runs : HalfHour(x)
  <2>1. CASE Requests \/ RetryStep \/ TrailStep \/ UNCHANGED vars
    BY <2>1
    DEF Requests, RequestStep, CreateStep, SaveRun, EnqueueRun, StampQueuedAt,
        RequestFails, UpdateStatus, DeleteDefinition, RetryStep, RetryAdvances,
        ListNeedsRetry, SetQueued, EnqueueAgain, RetryFails, TrailStep, SaveTracked,
        TrailFails, LoadTracked, vars, store
  <2>2. CASE SubmitStep \/ EmrSubmitStep
    BY <2>2
    DEF SubmitStep, EmrSubmitStep, SubmitAdvances, ReceiveRun, LoadQueued, LoadOther,
        NoExecutable, Execute, ExecuteRejected, ExecuteExists, ExecuteCreated, Done,
        ExecuteRetryable, SubmitCrash, VisibilityTimeout, ExecuteSpark, ExecuteSparkFails,
        StartJobRun, CreateJob, UpdateLaunched, store
  <2>3. CASE TerminateStep \/ EmrTerminateStep
    BY <2>3
    DEF TerminateStep, EmrTerminateStep, TerminateAdvances, DeleteJob, MarkStopped,
        NoClient, LoadRun, TerminateFails, TerminateError, CancelJobRun, CancelRefused, store
  <2>4. CASE StatusStep \/ Cleanup
    BY <2>4
    DEF StatusStep, PollAdvances, FetchError, SaveFails, PollCrash, ListAndLock, Reload,
        FetchNotFound, FetchJob, SavePolled, Cleanup, TwoMinutesLater, CleanupRun, store
  <2>5. CASE EventStep
    BY <2>5
    DEF EventStep, EventAdvances, SaveNoted, CancelNoisy, DeleteNotice, SaveNotedFails,
        EventCrash, Take, TakeUnknown, LosePodEvent, Redeliver, Notify, store
  <2>6. CASE Environment
    BY <2>6 DEF Environment, JobStarts, JobEnds, SparkJobFails, JobCollected, SetJob
  <2> QED BY <2>1, <2>2, <2>3, <2>4, <2>5, <2>6 DEF Next
<1> QED BY <1>2, <1>3

\* A notification is sent for a state of the job, taken, left, delivered again
\* or deleted; the store stays as it is.
Sent(r, k) ==
  /\ news[<<r, k>>] = "unsent" /\ About(r, k) /\ news'[<<r, k>>] = "visible"

Deletes(e, r, k) ==
  /\ evt[e].pc = "ack" /\ evt[e].run = r /\ evt[e].kind = k /\ DeleteNotice(e)
  /\ news'[<<r, k>>] = "deleted"

\* A notification is sent before it is received, and deleted by the events worker
\* that acknowledges it.
LEMMA NewsStep ==
  ASSUME IInv, [Next]_vars, NEW r \in Runs, NEW k \in News
  PROVE  \/ news'[<<r, k>>] = news[<<r, k>>]
         \/ /\ UNCHANGED store
            /\ \/ Sent(r, k)
               \/ /\ news'[<<r, k>>] = "hidden"
                  /\ (\E e \in EventWorkers : Take(e, r, k)) \/ k \notin PodNews
                  /\ news[<<r, k>>] = "visible"
               \/ /\ k \in PodNews
                  /\ news[<<r, k>>] = "visible" /\ news'[<<r, k>>] \in {"lost", "hidden"}
               \/ Redeliver(r, k) /\ news'[<<r, k>>] = "visible"
               \/ \E e \in EventWorkers : Deletes(e, r, k)
<1> DEFINE Goal ==
         \/ news'[<<r, k>>] = news[<<r, k>>]
         \/ /\ UNCHANGED store
            /\ \/ Sent(r, k)
               \/ /\ news'[<<r, k>>] = "hidden"
                  /\ (\E e \in EventWorkers : Take(e, r, k)) \/ k \notin PodNews
                  /\ news[<<r, k>>] = "visible"
               \/ /\ k \in PodNews
                  /\ news[<<r, k>>] = "visible" /\ news'[<<r, k>>] \in {"lost", "hidden"}
               \/ Redeliver(r, k) /\ news'[<<r, k>>] = "visible"
               \/ \E e \in EventWorkers : Deletes(e, r, k)
<1>1. news \in [Runs \X News -> NewsStates] /\ <<r, k>> \in Runs \X News
  BY DEF IInv, EventTypeOK
<1>2. ASSUME NEW x, NEW y, NEW s, <<x, y>> # <<r, k>>, Put(<<x, y>>, s)
      PROVE  news'[<<r, k>>] = news[<<r, k>>]
  BY <1>1, <1>2 DEF Put
<1>3. ASSUME NEW s, Put(<<r, k>>, s)
      PROVE  news'[<<r, k>>] = s
  BY <1>1, <1>3 DEF Put
<1>4. CASE UNCHANGED news
  BY <1>4
<1>5. ASSUME NEW x \in Runs, NEW y \in News, Notify(x, y)
      PROVE  Goal
  <2>1. CASE x = r /\ y = k
    BY <1>3, <1>5, <2>1 DEF Notify, Sent
  <2> QED BY <1>2, <1>5, <2>1 DEF Notify
<1>6. ASSUME NEW x \in Runs, NEW y \in News, Redeliver(x, y)
      PROVE  Goal
  <2>1. CASE x = r /\ y = k
    BY <1>3, <1>6, <2>1 DEF Redeliver
  <2> QED BY <1>2, <1>6, <2>1 DEF Redeliver
<1>7. ASSUME NEW e \in EventWorkers, NEW x \in Runs, NEW y \in News, Take(e, x, y)
      PROVE  Goal
  <2>1. CASE x = r /\ y = k
    BY <1>3, <1>7, <2>1 DEF Take
  <2> QED BY <1>2, <1>7, <2>1 DEF Take
<1>8. ASSUME NEW e \in EventWorkers, NEW x \in Runs, NEW y \in News, TakeUnknown(e, x, y)
      PROVE  Goal
  <2>1. CASE x = r /\ y = k
    BY <1>3, <1>8, <2>1 DEF TakeUnknown
  <2> QED BY <1>2, <1>8, <2>1 DEF TakeUnknown
<1>9. ASSUME NEW e \in EventWorkers, NEW x \in Runs, NEW y \in News, LosePodEvent(e, x, y)
      PROVE  Goal
  <2>1. CASE x = r /\ y = k
    BY <1>3, <1>9, <2>1 DEF LosePodEvent
  <2> QED BY <1>2, <1>9, <2>1 DEF LosePodEvent
<1>10. ASSUME NEW e \in EventWorkers, DeleteNotice(e)
       PROVE  Goal
  <2>1. CASE evt[e].run = r /\ evt[e].kind = k
    BY <1>3, <1>4, <1>10, <2>1 DEF DeleteNotice, Deletes
  <2> QED BY <1>2, <1>4, <1>10, <2>1 DEF DeleteNotice
<1>11. CASE EventStep
  BY <1>4, <1>5, <1>6, <1>7, <1>8, <1>9, <1>10, <1>11
  DEF EventStep, EventAdvances, SaveNoted, CancelNoisy, SaveNotedFails, EventCrash
<1> QED
  BY <1>4, <1>11
  DEF Next, OfRequests, OfSubmit, OfRetry, OfTerminate, OfStatus, OfTrail, OfEnvironment,
      eventVars, vars
-----------------------------------------------------------------------------
(* What holds of every behaviour. *)

Held(e) == <<evt[e].run, evt[e].kind>>

\* A worker has saved runs in hand, a submit worker executes runs it found
\* QUEUED, the status workers have EKS runs, pod events are of Spark runs.
HandsInv ==
  /\ \A w \in Submitters : sub[w].pc = "execute" => sub[w].run.status = "QUEUED"
  /\ \A p \in Pollers :
       /\ pol[p].pc # "idle" => Saved(pol[p].id) /\ pol[p].id \notin SparkRuns
       /\ \A r \in cleanup[p] : Saved(r) /\ r \notin SparkRuns
  /\ \A e \in EventWorkers : evt[e].pc # "receive" =>
       /\ Saved(evt[e].run) /\ news[Held(e)] # "unsent"
       /\ evt[e].pc = "cancel" => evt[e].kind \in PodNews
  /\ \A r \in Runs, k \in PodNews : news[<<r, k>>] # "unsent" => r \in SparkRuns

\* What a worker takes in hand it finds so, and leaves so.
LEMMA HandsNext ==
  ASSUME IInv, HandsInv, [Next]_vars
  PROVE  HandsInv'
<1>1. IInv' /\ Grows
  BY NextGrows
<1>2. ASSUME NEW r \in Runs, Saved(r)
      PROVE  Saved(r)'
  BY <1>1, <1>2 DEF Grows
<1>3. ASSUME NEW w \in Submitters, sub'[w].pc = "execute"
      PROVE  sub'[w].run.status = "QUEUED"
  <2>1. SubmitHand(w, RunOf(w))
    BY SubmitHands
  <2> QED BY <1>3, <2>1 DEF SubmitHand, HandsInv
<1>4. ASSUME NEW p \in Pollers, pol'[p].pc # "idle"
      PROVE  Saved(pol[p].id)' /\ pol'[p].id \notin SparkRuns
  <2>1. PollHand(p) /\ pol'[p].id \in Runs
    BY <1>4, PollHands
  <2>2. pol'[p].pc \in {"reload", "fetch", "save"}
    BY <1>1, <1>4 DEF IInv, StatusTypeOK, PollLocal, PollStates
  <2>3. CASE pol[p].pc # "idle" /\ pol'[p].id = pol[p].id
    BY <1>2, <2>1, <2>3 DEF HandsInv
  <2>4. CASE ToPoll(pol'[p].id)
    <3>1. Saved(pol'[p].id)
      BY <2>4 DEF ToPoll, Saved, Statuses, Unsaved
    <3> QED BY <1>2, <2>1, <2>4, <3>1 DEF ToPoll
  <2> QED BY <1>4, <2>1, <2>2, <2>3, <2>4 DEF PollHand
<1>5. ASSUME NEW p \in Pollers, NEW r \in cleanup'[p]
      PROVE  Saved(r)' /\ r \notin SparkRuns
  <2>1. r \in Runs
    BY <1>1 DEF IInv, StatusTypeOK
  <2>2. r \in cleanup[p] \/ (pol[p].pc = "fetch" /\ pol[p].id = r)
    BY PollHands
  <2> QED BY <1>2, <2>1, <2>2 DEF HandsInv
<1>6. ASSUME NEW r \in Runs, NEW k \in News, news[<<r, k>>] # "unsent"
      PROVE  news'[<<r, k>>] # "unsent"
  BY <1>6, NewsStep DEF Sent, Deletes
<1>7. ASSUME NEW r \in Runs, NEW k \in PodNews, news'[<<r, k>>] # "unsent"
      PROVE  r \in SparkRuns
  <2>1. k \in News /\ k \notin EksNews
    BY EventAssumption DEF News
  <2>2. CASE news[<<r, k>>] # "unsent"
    BY <2>2 DEF HandsInv
  <2>3. CASE Sent(r, k)
    BY <2>1, <2>3 DEF Sent, About
  <2>4. ASSUME NEW e \in EventWorkers, Deletes(e, r, k)
        PROVE  news[<<r, k>>] # "unsent"
    BY <2>4 DEF Deletes, HandsInv, Held
  <2> QED BY <1>7, <2>1, <2>2, <2>3, <2>4, NewsStep DEF Redeliver
<1>8. ASSUME NEW e \in EventWorkers, evt'[e].pc # "receive"
      PROVE  /\ Saved(evt[e].run)' /\ news[Held(e)]' # "unsent"
             /\ evt'[e].pc = "cancel" => evt'[e].kind \in PodNews
  <2>1. EventHand(e)
    BY EventHands
  <2>2. CASE evt'[e] = evt[e] \/ (/\ evt'[e].run = evt[e].run /\ evt'[e].kind = evt[e].kind
                                  /\ evt[e].pc # "receive"
                                  /\ evt'[e].pc = "cancel" => evt[e].kind \in PodNews)
    <3>1. evt[e].run \in Runs /\ evt[e].kind \in News /\ evt[e].pc # "receive"
      BY <1>8, <2>2 DEF IInv, EventInv
    <3> QED BY <1>2, <1>6, <2>2, <3>1 DEF HandsInv, Held
  <2>3. ASSUME NEW r \in Runs, NEW k \in News, Take(e, r, k), UNCHANGED store,
               evt'[e] = [pc |-> "save", run |-> r, kind |-> k, row |-> Noted(rows[r], k)]
        PROVE  Saved(evt[e].run)' /\ news[Held(e)]' # "unsent" /\ evt'[e].pc # "cancel"
    <3>1. news[<<r, k>>] # "unsent" /\ Saved(r)
      BY <2>3 DEF Take, Found, Exists, Saved, Statuses, Unsaved
    <3>2. evt'[e].run = r /\ evt'[e].kind = k /\ evt'[e].pc = "save"
      BY <2>3
    <3>3. Held(e)' = <<r, k>>
      BY <3>2 DEF Held
    <3> QED BY <1>2, <1>6, <3>1, <3>2, <3>3
  <2>4. CASE evt'[e].pc \in {"cancel", "ack"} /\ evt'[e] # evt[e]
    <3>1. evt[e].pc # "receive" /\ (evt'[e].pc = "cancel" => evt[e].kind \in PodNews)
      <4>1. evt \in [EventWorkers -> EventLocal]
        BY DEF IInv, EventTypeOK
      <4> QED
        BY <2>1, <2>4, <4>1 DEF EventHand, SaveNoted, SaveNotedFails, CancelNoisy, AtLimit, Then,
                                EventLocal
    <3> QED BY <2>1, <2>2, <2>4, <3>1 DEF EventHand
  <2>5. evt'[e].pc \in {"save", "cancel", "ack"}
    BY <1>1, <1>8 DEF IInv, EventTypeOK, EventLocal, EventStates
  <2> QED BY <2>1, <2>2, <2>3, <2>4, <2>5 DEF EventHand
<1> QED BY <1>3, <1>4, <1>5, <1>7, <1>8 DEF HandsInv

\* A job was launched, for a saved run; one that EMR started never goes.
LaunchInv ==
  \A r \in Runs :
    /\ jobs[r] # "absent" => launched[r] > 0
    /\ launched[r] > 0 => Saved(r)
    /\ r \in SparkRuns /\ launched[r] > 0 => jobs[r] # "absent" /\ launched[r] = 1

\* EMR starts no second job for a run, and no run gets a job before it is saved.
LEMMA LaunchNext ==
  ASSUME IInv, HandsInv, LaunchInv, [Next]_vars
  PROVE  LaunchInv'
<1> SUFFICES ASSUME NEW r \in Runs
             PROVE  /\ jobs'[r] # "absent" => launched'[r] > 0
                    /\ launched'[r] > 0 => Saved(r)'
                    /\ r \in SparkRuns /\ launched'[r] > 0
                         => jobs'[r] # "absent" /\ launched'[r] = 1
  BY DEF LaunchInv
<1>1. Saved(r) => Saved(r)'
  BY NextGrows DEF Grows
<1>2. jobs \in [Runs -> JobStates] /\ launched \in [Runs -> Nat]
  BY DEF IInv, StoreInv, StoreTypeOK
<1>3. /\ jobs[r] # "absent" => launched[r] > 0
      /\ launched[r] > 0 => Saved(r)
      /\ r \in SparkRuns /\ launched[r] > 0 => jobs[r] # "absent" /\ launched[r] = 1
  BY DEF LaunchInv
<1>4. CASE jobs'[r] = jobs[r] /\ launched'[r] = launched[r]
  BY <1>1, <1>3, <1>4
<1>5. CASE CreateJob(r) /\ Executing(r)
  <2>1. Saved(r)
    BY <1>5, RunOfSaved DEF Executing, IInv
  <2>2. jobs'[r] = "pending" /\ launched'[r] = launched[r] + 1 /\ jobs[r] = "absent"
    BY <1>2, <1>5 DEF CreateJob
  <2> QED BY <1>1, <1>2, <1>3, <2>1, <2>2
<1>6. CASE Live(r) /\ jobs'[r] # "absent" /\ launched'[r] = launched[r]
  <2>1. jobs[r] # "absent"
    BY <1>6 DEF Live
  <2> QED BY <1>1, <1>3, <1>6, <2>1
<1>7. CASE Removed(r) /\ jobs'[r] = "absent" /\ launched'[r] = launched[r]
  <2>1. r \notin SparkRuns
    BY <1>7 DEF Removed, DeleteJob, DeletesEks, JobCollected, CleanupRun, HandsInv
  <2> QED BY <1>1, <1>3, <1>7, <2>1
<1> QED BY <1>4, <1>5, <1>6, <1>7, JobStep

BaseInv == IInv /\ HandsInv /\ LaunchInv

\* The base of the invariants below.
LEMMA Base == Spec => []BaseInv
<1>1. Init => BaseInv
  <2> SUFFICES ASSUME Init PROVE HandsInv /\ LaunchInv
    BY IInvInit DEF BaseInv
  <2> USE DEF Init
  <2>1. LaunchInv
    BY DEF StoreInit, LaunchInv
  <2>2. HandsInv
    BY DEF HandsInv, SubmitInit, Polling, StatusInit, NotPolling, EventInit, Receiving, News
  <2> QED BY <2>1, <2>2
<1>2. BaseInv /\ [Next]_vars => BaseInv'
  BY IInvNext, HandsNext, LaunchNext DEF BaseInv
<1> QED BY <1>1, <1>2, PTL DEF Spec

\* EMR starts one job for a Spark run, whichever workers execute it, however
\* often: the client token is the run.
THEOREM SparkLaunchedOnce == Spec => [](\A r \in SparkRuns : launched[r] <= 1)
<1>1. ASSUME BaseInv PROVE \A r \in SparkRuns : launched[r] <= 1
  <2>1. launched \in [Runs -> Nat] /\ SparkRuns \subseteq Runs
    BY <1>1, StoreAssumption DEF BaseInv, IInv, StoreInv, StoreTypeOK
  <2> QED BY <1>1, <2>1 DEF BaseInv, LaunchInv
<1> QED BY <1>1, Base, PTL
-----------------------------------------------------------------------------
(* What the workers do to statuses. *)

\* The statuses UpdateWith may give to a row.
LEMMA MergedStatus ==
  ASSUME NEW d \in Row, NEW o \in Updates
  PROVE  LET s == UpdateWith(d, o).status IN
         /\ s = d.status \/ (s = o.status /\ s \in Statuses)
         /\ o.status = "STOPPED" => s = "STOPPED"
         /\ o.status \in {"PENDING", "RUNNING"} => s # "QUEUED"
         /\ o.status # "NEEDS_RETRY" =>
              /\ d.status = "STOPPED" => s = "STOPPED"
              /\ s = "QUEUED" => d.status \in {"QUEUED", "NEEDS_RETRY"}
<1>1. ASSUME NEW a \in Statuses, NEW b \in Statuses \union {NoStatus}
      PROVE  LET s == MergeStatus(a, b) IN
         /\ s = a \/ (s = b /\ s \in Statuses)
         /\ b = "STOPPED" => s = "STOPPED"
         /\ b \in {"PENDING", "RUNNING"} => s # "QUEUED"
         /\ b # "NEEDS_RETRY" =>
              /\ a = "STOPPED" => s = "STOPPED"
              /\ s = "QUEUED" => a \in {"QUEUED", "NEEDS_RETRY"}
  <2>1. MergeStatus(a, b) = a \/ (MergeStatus(a, b) = b /\ b \in Statuses)
    BY DEF MergeStatus, Statuses
  <2>2. CASE b \in Statuses
    BY <2>2 DEF MergeStatus, Statuses, Precedence
  <2>3. CASE b = NoStatus
    <3>1. NoStatus \notin Statuses
      BY DEF NoStatus, Statuses
    <3>2. b # "NEEDS_RETRY" /\ b # "STOPPED" /\ b \notin {"PENDING", "RUNNING"}
      BY <2>3, <3>1 DEF Statuses
    <3> QED BY <2>1, <2>3, <3>1, <3>2
  <2> QED BY <2>2, <2>3
<1>2. d.status \in Statuses /\ o.status \in Statuses \union {NoStatus}
  BY DEF Row, Updates, Columns
<1>3. UpdateWith(d, o).status = MergeStatus(d.status, o.status)
  BY DEF UpdateWith
<1> QED BY <1>1, <1>2, <1>3

\* What a poll makes of the status of a run.
LEMMA FetchedStatus ==
  ASSUME NEW r \in Runs, NEW run \in Row, NEW row, Fetched(r, run, row)
  PROVE  row.status \in {"RUNNING", "STOPPED", run.status}
BY DEF Fetched, FetchUpdateStatus, AdaptJob, Stop, Row, Columns

\* The statuses of the copies the workers make.
LEMMA MadeStatus ==
  ASSUME BaseInv, NEW r \in Runs, NEW row, Made(r, row)
  PROVE  \/ row.status \in {"QUEUED", "PENDING", "RUNNING", "STOPPED"}
         \/ row.status = rows[r].status
         \/ \E p \in Pollers :
              pol[p].pc = "fetch" /\ pol[p].id = r /\ row.status = pol[p].run.status
<1>1. ASSUME NEW w \in Submitters, sub[w].pc = "execute", RunOf(w) = r,
             Executed(r, sub[w].run, row)
      PROVE  row.status \in {"QUEUED", "PENDING", "RUNNING", "STOPPED"}
  <2>1. sub[w].run \in Row /\ sub[w].run.status = "QUEUED"
    BY <1>1 DEF BaseInv, IInv, SubmitTypeOK, SubmitLocal, HandsInv
  <2> QED BY <1>1, <2>1 DEF Executed, Stop, Row, Columns
<1>2. ASSUME NEW p \in Pollers, Fetched(r, pol[p].run, row)
      PROVE  row.status \in {"RUNNING", "STOPPED", pol[p].run.status}
  BY <1>2, FetchedStatus DEF BaseInv, IInv, StatusTypeOK, PollLocal
<1>3. ASSUME NEW e \in EventWorkers, NEW k \in News, Take(e, r, k), row = Noted(rows[r], k)
      PROVE  row.status \in {"PENDING", "RUNNING", "STOPPED", rows[r].status}
  <2>1. rows[r] \in Row
    BY <1>3 DEF Take, Found, Exists, BaseInv, IInv, StoreInv, StoreTypeOK, Row, Stored, Columns
  <2> QED BY <1>3, <2>1 DEF Noted, AddPodEvent, Stop, Row, Columns
<1> QED BY <1>1, <1>2, <1>3 DEF Made

\* An update is a copy a worker made, or one of few columns.
LEMMA SourceColumns ==
  ASSUME BaseInv, NEW r \in Runs, NEW o, Source(r, o)
  PROVE  \/ Writing(r, o) /\ o \in Row
         \/ /\ o.status \in {"QUEUED", "STOPPED", NoStatus} \union ReportStatuses
            /\ o.spark = "nil" /\ o.events = 0
            /\ \/ o.status \in {"QUEUED", NoStatus} /\ ~o.exitCode
               \/ MaxReports > 0 /\ ReportStatuses # {}
               \/ Terminators # {}
<1>1. ASSUME Writing(r, o) PROVE o \in Row
  BY <1>1 DEF Writing, BaseInv, IInv, SubmitTypeOK, SubmitLocal, StatusTypeOK, PollLocal,
              EventTypeOK, EventLocal, TrailTypeOK, TrailLocal
<1>2. CASE o = Blank("QUEUED")
  BY <1>2 DEF Blank
<1>3. CASE o = [Blank(NoStatus) EXCEPT !.queuedAt = TRUE]
  BY <1>3 DEF Blank
<1>4. ASSUME NEW s, NEW e, o = Report(s, e)
      PROVE  o.status = s /\ o.spark = "nil" /\ o.events = 0
  BY <1>4 DEF Report, Blank
<1> QED BY <1>1, <1>2, <1>3, <1>4 DEF Source

\* When no client reports NEEDS_RETRY, no row and no copy has that status, and
\* the retry workers have nothing to do.
Calm(row) == row.status # "NEEDS_RETRY"
NoRetryInv ==
  /\ \A r \in Runs :
       /\ Calm(rows[r])
       /\ \A row \in Row : Reading(r, row) \/ Writing(r, row) => Calm(row)
  /\ \A w \in Retriers : ret[w].pc = "list"

\* No run starts as one to be retried ...
LEMMA NoRetryInit ==
  ASSUME Init
  PROVE  NoRetryInv
BY DEF Init, StoreInit, SubmitInit, StatusInit, EventInit, TrailInit, RetryInit, NoRetryInv,
       Calm, Reading, Writing, Blank, Unsaved, Polling, NotPolling, Receiving, Untracked, Listing

\* ... and no step makes one, when nobody asks for it.
LEMMA NoRetryNext ==
  ASSUME "NEEDS_RETRY" \notin ReportStatuses, BaseInv, NoRetryInv, [Next]_vars
  PROVE  NoRetryInv'
<1>1. ASSUME NEW r \in Runs
      PROVE  Calm(rows[r])'
  <2>1. Calm(rows[r])
    BY DEF NoRetryInv
  <2>2. ASSUME NEW o \in Updates, Source(r, o)
        PROVE  o.status # "NEEDS_RETRY"
    <3>1. NoStatus # "NEEDS_RETRY"
      BY DEF NoStatus
    <3> QED BY <2>2, <3>1, SourceColumns DEF NoRetryInv, Calm
  <2>3. NewRun(r).status # "NEEDS_RETRY" /\ Blank(Deleted).status # "NEEDS_RETRY"
    BY DEF NewRun, Blank, Deleted
  <2> QED BY <2>1, <2>2, <2>3, RowStep, MergedStatus DEF BaseInv, Calm
<1>2. ASSUME NEW r \in Runs, NEW row \in Row, (Reading(r, row) \/ Writing(r, row))'
      PROVE  Calm(row)
  <2>1. CASE Reading(r, row)'
    BY <2>1, ReadingStep DEF BaseInv, NoRetryInv
  <2>2. ASSUME Made(r, row)
        PROVE  Calm(row)
    <3>1. ASSUME NEW p \in Pollers, pol[p].pc = "fetch", pol[p].id = r
          PROVE  Calm(pol[p].run)
      BY <3>1 DEF NoRetryInv, Reading, BaseInv, IInv, StatusTypeOK, PollLocal
    <3> QED BY <2>2, <3>1, MadeStatus DEF NoRetryInv, Calm
  <2> QED BY <1>2, <2>1, <2>2, WritingStep DEF BaseInv, NoRetryInv
<1>3. ASSUME NEW w \in Retriers
      PROVE  ret'[w].pc = "list"
  <2>1. ret \in [Retriers -> RetryLocal] /\ ret[w].pc = "list"
    BY DEF BaseInv, IInv, RetryTypeOK, NoRetryInv
  <2>2. \A v \in Retriers : ~RetryAdvances(v) /\ ~RetryFails(v)
    BY DEF RetryAdvances, ListNeedsRetry, SetQueued, EnqueueAgain, RetryFails, NoRetryInv, Calm
  <2> QED
    BY <2>1, <2>2
    DEF Next, RetryStep, OfRequests, OfSubmit, OfTerminate, OfStatus, OfEvents, OfTrail,
        OfEnvironment, vars
<1> QED BY <1>1, <1>2, <1>3 DEF NoRetryInv

\* A notification that a job is over is deleted, or about to be, only when the
\* run is; before, the worker is about to write that it is.
Ended(r) == rows[r].status \in {"STOPPED", Deleted}
EndsInv ==
  /\ \A r \in Runs, k \in News \intersect Ends : news[<<r, k>>] = "deleted" => Ended(r)
  /\ \A e \in EventWorkers : evt[e].kind \in Ends =>
       /\ evt[e].pc = "save" => evt[e].row.status = "STOPPED"
       /\ evt[e].pc \in {"cancel", "ack"} => Ended(evt[e].run)

\* A run that is over stays so, when nobody asks for a retry.
LEMMA EndedStays ==
  ASSUME "NEEDS_RETRY" \notin ReportStatuses, BaseInv, NoRetryInv, [Next]_vars,
         NEW r \in Runs, Ended(r)
  PROVE  Ended(r)'
<1>1. ASSUME NEW o \in Updates, Source(r, o)
      PROVE  o.status # "NEEDS_RETRY"
  <2>1. NoStatus # "NEEDS_RETRY"
    BY DEF NoStatus
  <2> QED BY <1>1, <2>1, SourceColumns DEF NoRetryInv, Calm
<1>2. Blank(Deleted).status = Deleted /\ Deleted \notin Statuses /\ Deleted # Unsaved
  BY DEF Blank, Deleted, Statuses, Unsaved
<1>3. rows[r].status = Unsaved => FALSE
  BY <1>2 DEF Ended, Unsaved, Statuses
<1> QED BY <1>1, <1>2, <1>3, RowStep, MergedStatus DEF BaseInv, Ended, Exists

\* An events worker that acknowledges the end of a job has recorded it.
LEMMA EndsNext ==
  ASSUME "NEEDS_RETRY" \notin ReportStatuses, BaseInv, NoRetryInv, EndsInv, [Next]_vars
  PROVE  EndsInv'
<1>1. \A r \in Runs : Ended(r) => Ended(r)'
  BY EndedStays
<1>2. Ends \intersect PodNews = {}
  BY EventAssumption DEF Ends, EmrStates, EksReasons
<1>3. ASSUME NEW r \in Runs, NEW k \in News \intersect Ends, news'[<<r, k>>] = "deleted"
      PROVE  Ended(r)'
  <2>1. CASE news[<<r, k>>] = "deleted"
    BY <1>1, <2>1 DEF EndsInv
  <2>2. ASSUME NEW e \in EventWorkers, Deletes(e, r, k)
        PROVE  Ended(r)
    BY <2>2 DEF Deletes, EndsInv
  <2> QED BY <1>1, <1>2, <1>3, <2>1, <2>2, NewsStep DEF BaseInv, Sent
<1>4. ASSUME NEW e \in EventWorkers, evt'[e].kind \in Ends
      PROVE  /\ evt'[e].pc = "save" => evt'[e].row.status = "STOPPED"
             /\ evt'[e].pc \in {"cancel", "ack"} => Ended(evt[e].run)'
  <2>1. EventHand(e) /\ evt \in [EventWorkers -> EventLocal] /\ IInv'
    BY EventHands, NextGrows DEF BaseInv, IInv, EventTypeOK
  <2>2. CASE evt'[e] = evt[e]
    <3>1. evt[e].pc # "receive" => evt[e].run \in Runs
      BY DEF BaseInv, IInv, EventInv
    <3> QED BY <1>1, <1>4, <2>2, <3>1 DEF EndsInv, Ended
  <2>3. ASSUME NEW r \in Runs, NEW k \in News, Take(e, r, k),
               evt'[e] = [pc |-> "save", run |-> r, kind |-> k, row |-> Noted(rows[r], k)]
        PROVE  evt'[e].pc = "save" /\ evt'[e].row.status = "STOPPED"
    <3>1. rows[r] \in Row
      BY <2>3 DEF Take, Found, Exists, BaseInv, IInv, StoreInv, StoreTypeOK, Row, Stored, Columns
    <3>2. Noted(rows[r], k) = Stop(rows[r])
      BY <1>2, <1>4, <2>3 DEF Noted, Ends
    <3>3. Stop(rows[r]).status = "STOPPED"
      BY <3>1 DEF Stop, Row, Columns
    <3> QED BY <2>3, <3>2, <3>3
  <2>4. CASE evt'[e].run = evt[e].run /\ evt'[e].kind = evt[e].kind /\ SaveNoted(e)
    <3>1. PICK r \in Runs : r = evt[e].run
      BY <2>4 DEF SaveNoted, BaseInv, IInv, EventInv
    <3>2. evt'[e].pc # "save"
      BY <2>1, <2>4 DEF SaveNoted, Then, EventLocal
    <3>3. /\ evt[e].row \in Row /\ evt[e].row \in Updates
          /\ evt[e].row.status = "STOPPED" /\ Saved(r)
      BY <1>4, <2>1, <2>4, <3>1, BlankUpdates
      DEF SaveNoted, EndsInv, EventLocal, BaseInv, HandsInv
    <3>4. rows[r] \in Stored /\ rows \in [Runs -> Stored]
      BY DEF BaseInv, IInv, StoreInv, StoreTypeOK
    <3>5. CASE Exists(r)
      <4>1. rows[r] \in Row /\ rows'[r] = UpdateWith(rows[r], evt[e].row)
        BY <2>4, <3>1, <3>4, <3>5 DEF SaveNoted, UpdateRun, Exists, Row, Stored, Columns
      <4>2. rows'[r].status = "STOPPED"
        BY <3>3, <4>1, MergedStatus
      <4> QED BY <2>4, <3>1, <3>2, <4>2 DEF Ended
    <3>6. CASE ~Exists(r)
      <4>1. rows[r].status = Deleted
        BY <3>3, <3>4, <3>6 DEF Exists, Stored, Columns, Saved
      <4>2. Ended(r)'
        BY <1>1, <4>1 DEF Ended
      <4> QED BY <2>4, <3>1, <3>2, <4>2 DEF Ended
    <3> QED BY <3>5, <3>6
  <2>5. CASE evt'[e].run = evt[e].run /\ evt'[e].kind = evt[e].kind /\ CancelNoisy(e)
    <3>1. evt[e].run \in Runs /\ Ended(evt[e].run)
      BY <1>4, <2>5 DEF CancelNoisy, EndsInv, BaseInv, IInv, EventInv
    <3>2. Ended(evt[e].run)'
      BY <1>1, <2>5, <3>1 DEF Ended
    <3>3. evt'[e].pc # "save"
      BY <2>1, <2>5 DEF CancelNoisy, Then, EventLocal
    <3> QED BY <3>2, <3>3
  <2> QED
    BY <1>2, <1>4, <2>1, <2>2, <2>3, <2>4, <2>5 DEF EventHand
<1> QED BY <1>3, <1>4 DEF EndsInv, Ended

\* Whatever the order in which the notifications of a job come and however
\* often, none that says it is over is deleted before the row says so, unless
\* a client set the run to be retried in between.
THEOREM EndsAreRecorded ==
  ASSUME "NEEDS_RETRY" \notin ReportStatuses
  PROVE  Spec => []AckedEndsAreRecorded
<1>1. Init => NoRetryInv /\ EndsInv
  <2>1. NoStatus \notin Ends /\ Receiving.kind = NoStatus
    BY DEF NoStatus, Ends, Receiving
  <2>2. Init => EndsInv
    BY <2>1 DEF Init, EventInit, EndsInv
  <2> QED BY <2>2, NoRetryInit
<1>2. BaseInv /\ NoRetryInv /\ EndsInv /\ [Next]_vars => NoRetryInv' /\ EndsInv'
  BY NoRetryNext, EndsNext
<1>3. EndsInv => AckedEndsAreRecorded
  BY DEF EndsInv, AckedEndsAreRecorded, Ended
<1> QED BY <1>1, <1>2, <1>3, Base, PTL DEF Spec
-----------------------------------------------------------------------------
(* Spark runs that are under way know their job. *)

\* A copy of a row of a Spark run that is to be written knows the job, or
\* says that the run is over.
SparkInv ==
  \A r \in SparkRuns :
    /\ rows[r].status \in {"PENDING", "RUNNING"} => rows[r].spark = "saved"
    /\ \A row \in Row : Writing(r, row) => row.spark = "saved" \/ row.status = "STOPPED"

\* Workers write PENDING and RUNNING to rows that hold the id of the EMR job.
LEMMA SparkNext ==
  ASSUME ReportStatuses \intersect {"PENDING", "RUNNING"} = {}, Trackers = {},
         BaseInv, SparkInv, [Next]_vars
  PROVE  SparkInv'
<1> SUFFICES ASSUME NEW r \in SparkRuns
             PROVE  /\ rows'[r].status \in {"PENDING", "RUNNING"} => rows'[r].spark = "saved"
                    /\ \A row \in Row :
                         Writing(r, row)' => row.spark = "saved" \/ row.status = "STOPPED"
  BY DEF SparkInv
<1>1. r \in Runs
  BY StoreAssumption
<1>2. ASSUME NEW row \in Row, Made(r, row)
      PROVE  row.spark = "saved" \/ row.status = "STOPPED"
  <2>1. ASSUME NEW w \in Submitters, sub[w].pc = "execute", Executed(r, sub[w].run, row)
        PROVE  row.spark = "saved" \/ row.status = "STOPPED"
    <3>1. sub[w].run \in Row
      BY DEF BaseInv, IInv, SubmitTypeOK, SubmitLocal
    <3> QED BY <2>1, <3>1 DEF Executed, Stop, Row, Columns
  <2>2. ASSUME NEW e \in EventWorkers, NEW k \in News, Take(e, r, k), row = Noted(rows[r], k)
        PROVE  row.spark = "saved"
    <3>1. rows[r] \in Row /\ rows[r].spark = "saved"
      BY <1>1, <2>2
      DEF Take, Found, Exists, BaseInv, IInv, StoreInv, StoreTypeOK, Row, Stored, Columns
    <3> QED BY <2>2, <3>1 DEF Noted, AddPodEvent, Stop, Row, Columns
  <2>3. \A p \in Pollers : pol[p].pc = "fetch" => pol[p].id # r
    BY DEF BaseInv, HandsInv
  <2> QED BY <1>2, <2>1, <2>2, <2>3 DEF Made
<1>3. ASSUME NEW row \in Row, Writing(r, row)'
      PROVE  row.spark = "saved" \/ row.status = "STOPPED"
  BY <1>1, <1>2, <1>3, WritingStep DEF BaseInv, SparkInv
<1>4. ASSUME rows'[r].status \in {"PENDING", "RUNNING"}
      PROVE  rows'[r].spark = "saved"
  <2>1. ASSUME NEW o \in Updates, rows[r] \in Row, Source(r, o), rows'[r] = UpdateWith(rows[r], o)
        PROVE  rows'[r].spark = "saved"
    <3>1. rows'[r].spark = IF o.spark = "nil" THEN rows[r].spark ELSE o.spark
      BY <2>1 DEF UpdateWith
    <3>2. CASE Writing(r, o) /\ o \in Row
      BY <1>4, <2>1, <3>1, <3>2, MergedStatus DEF SparkInv
    <3>3. CASE /\ o.status \in {"QUEUED", "STOPPED", NoStatus} \union ReportStatuses
               /\ o.spark = "nil"
      <4>1. o.status \notin {"PENDING", "RUNNING"}
        BY <3>3 DEF NoStatus
      <4> QED BY <1>4, <2>1, <3>1, <3>3, <4>1, MergedStatus DEF SparkInv
    <3> QED BY <1>1, <2>1, <3>2, <3>3, SourceColumns
  <2>2. NewRun(r).status = "QUEUED" /\ Blank(Deleted).status = Deleted
        /\ Deleted \notin {"PENDING", "RUNNING"}
    BY DEF NewRun, Blank, Deleted
  <2> QED BY <1>1, <1>4, <2>1, <2>2, RowStep DEF BaseInv, SparkInv
<1> QED BY <1>3, <1>4

\* As long as clients report neither PENDING nor RUNNING by hand and no
\* cloudtrail worker writes old rows back, a Spark run that is shown under way
\* can be terminated.
THEOREM SparkRunsKnowTheirJob ==
  ASSUME ReportStatuses \intersect {"PENDING", "RUNNING"} = {}, Trackers = {}
  PROVE  Spec => []SparkSeenHasJob
<1>1. Init => SparkInv
  <2>1. Unsaved \notin {"PENDING", "RUNNING"} /\ Blank(Unsaved).status = Unsaved
    BY DEF Unsaved, Blank
  <2> QED
    BY <2>1, StoreAssumption
    DEF Init, StoreInit, SubmitInit, StatusInit, EventInit, TrailInit, SparkInv, Writing,
        Polling, NotPolling, Receiving, Untracked
<1>2. BaseInv /\ SparkInv /\ [Next]_vars => SparkInv'
  BY SparkNext
<1>3. SparkInv => SparkSeenHasJob
  BY DEF SparkInv, SparkSeenHasJob
<1> QED BY <1>1, <1>2, <1>3, Base, PTL DEF Spec
-----------------------------------------------------------------------------
(* Messages are acknowledged when their runs are taken care of. *)

\* What UpdateLaunched leaves behind: the run had a job, or is written as over.
AckInv ==
  \A w \in Submitters :
    /\ sub[w].pc = "update" => launched[RunOf(w)] > 0 \/ sub[w].run.status = "STOPPED"
    /\ sub[w].pc = "ack" => rows[RunOf(w)].status # "QUEUED" \/ launched[RunOf(w)] > 0

\* A run that was saved and is not QUEUED any more.
Past(r) == rows[r].status \notin {"QUEUED", Unsaved}

\* Only a retry would make it QUEUED again.
LEMMA QueuedOnce ==
  ASSUME "NEEDS_RETRY" \notin ReportStatuses, BaseInv, NoRetryInv, [Next]_vars,
         NEW r \in Runs, Past(r)
  PROVE  Past(r)'
<1> USE DEF Past
<1>1. ASSUME NEW o \in Updates, Source(r, o)
      PROVE  o.status # "NEEDS_RETRY"
  <2>1. NoStatus # "NEEDS_RETRY"
    BY DEF NoStatus
  <2> QED BY <1>1, <2>1, SourceColumns DEF NoRetryInv, Calm
<1>2. Blank(Deleted).status = Deleted /\ Deleted \notin {"QUEUED", Unsaved}
  BY DEF Blank, Deleted, Unsaved
<1>3. Unsaved \notin Statuses
  BY DEF Unsaved, Statuses
<1>4. rows[r].status # "NEEDS_RETRY"
  BY DEF NoRetryInv, Calm
<1>5. ASSUME NEW o \in Updates, rows[r] \in Row, Source(r, o), rows'[r] = UpdateWith(rows[r], o)
      PROVE  rows'[r].status \notin {"QUEUED", Unsaved}
  <2>1. UpdateWith(rows[r], o).status \in Statuses
    BY <1>5, UpdateWithRow DEF Row, Columns
  <2> QED BY <1>1, <1>3, <1>4, <1>5, <2>1, MergedStatus
<1> QED BY <1>2, <1>5, RowStep DEF BaseInv

\* Jobs are not forgotten.
LEMMA LaunchedStays ==
  ASSUME BaseInv, [Next]_vars, NEW r \in Runs, launched[r] > 0
  PROVE  launched'[r] > 0
<1>1. launched \in [Runs -> Nat]
  BY DEF BaseInv, IInv, StoreInv, StoreTypeOK
<1> QED BY <1>1, JobStep DEF BaseInv, CreateJob

\* What Execute hands back had a job, or is over.
LEMMA ExecutedStarts ==
  ASSUME BaseInv, [Next]_vars, NEW r \in Runs, NEW run \in Row, NEW row, Executed(r, run, row)
  PROVE  launched'[r] > 0 \/ row.status = "STOPPED"
<1>1. jobs[r] # "absent" => launched'[r] > 0
  BY LaunchedStays DEF BaseInv, LaunchInv
<1>2. CreateJob(r) => launched'[r] > 0
  BY DEF BaseInv, IInv, StoreInv, StoreTypeOK, CreateJob
<1>3. /\ [run EXCEPT !.status = "STOPPED"].status = "STOPPED"
      /\ Stop(run).status = "STOPPED"
  BY DEF Stop, Row, Columns
<1> QED BY <1>1, <1>2, <1>3 DEF Executed, StartJobRun

\* A submit worker goes on to acknowledge a message once its run has left QUEUED or
\* got a job.
LEMMA AckNext ==
  ASSUME "NEEDS_RETRY" \notin ReportStatuses, "db" \notin Faults,
         BaseInv, NoRetryInv, AckInv, [Next]_vars
  PROVE  AckInv'
<1> SUFFICES ASSUME NEW w \in Submitters
             PROVE  /\ sub'[w].pc = "update" =>
                         launched'[RunOf(w)'] > 0 \/ sub'[w].run.status = "STOPPED"
                    /\ sub'[w].pc = "ack" =>
                         rows'[RunOf(w)'].status # "QUEUED" \/ launched'[RunOf(w)'] > 0
  BY DEF AckInv
<1> SUFFICES ASSUME sub'[w].pc \in {"update", "ack"}
             PROVE  /\ sub'[w].pc = "update" =>
                         launched'[RunOf(w)'] > 0 \/ sub'[w].run.status = "STOPPED"
                    /\ sub'[w].pc = "ack" =>
                         rows'[RunOf(w)'].status # "QUEUED" \/ launched'[RunOf(w)'] > 0
  OBVIOUS
<1>1. PICK r \in Runs : r = RunOf(w) /\ RunOf(w)' = r /\ SubmitHand(w, r)
  BY SubmitHands DEF BaseInv
<1>2. sub[w].pc # "poll" => Saved(r)
  BY <1>1, RunOfSaved DEF BaseInv, IInv
<1>3. launched[r] > 0 => launched'[r] > 0
  BY LaunchedStays
<1>4. sub[w].pc # "poll" /\ rows[r].status # "QUEUED" => rows'[r].status # "QUEUED"
  BY <1>2, QueuedOnce DEF Saved, Past
<1>5. CASE sub'[w].pc = "update" /\ sub'[w] = sub[w]
  BY <1>1, <1>3, <1>5 DEF AckInv
<1>6. CASE /\ sub'[w].pc = "update" /\ sub[w].pc = "execute"
           /\ Executed(r, sub[w].run, sub'[w].run)
  <2>1. sub[w].run \in Row
    BY DEF BaseInv, IInv, SubmitTypeOK, SubmitLocal
  <2> QED BY <1>1, <1>6, <2>1, ExecutedStarts
<1>7. CASE sub'[w].pc = "ack" /\ sub'[w] = sub[w]
  BY <1>1, <1>3, <1>4, <1>7 DEF AckInv
<1>8. CASE UNCHANGED store /\ rows[r].status # "QUEUED" /\ sub'[w].pc = "ack"
  BY <1>1, <1>8 DEF store
<1>9. CASE sub'[w].pc = "ack" /\ sub[w].pc = "update" /\ UpdateRun(r, sub[w].run)
  <2>1. CASE launched[r] > 0
    BY <1>1, <1>3, <1>9, <2>1
  <2>2. CASE sub[w].run.status = "STOPPED"
    <3>1. sub[w].run \in Updates /\ rows \in [Runs -> Stored]
      BY BlankUpdates DEF BaseInv, IInv, SubmitTypeOK, SubmitLocal, StoreInv, StoreTypeOK
    <3>2. CASE Exists(r)
      <4>1. rows[r] \in Row /\ rows'[r] = UpdateWith(rows[r], sub[w].run)
        BY <1>9, <3>1, <3>2 DEF UpdateRun, Exists, Row, Stored, Columns
      <4>2. rows'[r].status = "STOPPED"
        BY <2>2, <3>1, <4>1, MergedStatus
      <4> QED BY <1>1, <1>9, <4>2
    <3>3. CASE ~Exists(r)
      BY <1>1, <1>4, <1>9, <3>3 DEF Exists, Statuses
    <3> QED BY <3>2, <3>3
  <2> QED BY <1>1, <1>9, <2>1, <2>2 DEF AckInv
<1> QED BY <1>1, <1>5, <1>6, <1>7, <1>8, <1>9 DEF SubmitHand

\* No message is acknowledged for a run that still waits for its first job,
\* when the database answers and no client asks for a retry.
THEOREM AcksAreEarned ==
  ASSUME "NEEDS_RETRY" \notin ReportStatuses, "db" \notin Faults
  PROVE  Spec => []AckedWhenHandled
<1>1. Init => NoRetryInv /\ AckInv
  BY NoRetryInit DEF Init, SubmitInit, Polling, AckInv
<1>2. BaseInv /\ NoRetryInv /\ AckInv /\ [Next]_vars => NoRetryInv' /\ AckInv'
  BY NoRetryNext, AckNext
<1>3. AckInv => AckedWhenHandled
  BY DEF AckInv, AckedWhenHandled
<1> QED BY <1>1, <1>2, <1>3, Base, PTL DEF Spec
-----------------------------------------------------------------------------
(* A run is launched once. *)

\* A cleanup is asleep for a run that is past its queuing, or whose poll is
\* just about to say so.
CleanInv ==
  \A p \in Pollers : \A r \in cleanup[p] :
    Past(r) \/ (pol[p].pc = "save" /\ pol[p].id = r /\ pol[p].run.status # "QUEUED")

\* A cleanup is started by a poll that saves what it found.
LEMMA CleanNext ==
  ASSUME "NEEDS_RETRY" \notin ReportStatuses, "db" \notin Faults,
         BaseInv, NoRetryInv, CleanInv, [Next]_vars
  PROVE  CleanInv'
<1> SUFFICES ASSUME NEW p \in Pollers, NEW r \in cleanup'[p]
             PROVE  Past(r)' \/ (pol'[p].pc = "save" /\ pol'[p].id = r /\ pol'[p].run.status # "QUEUED")
  BY DEF CleanInv
<1>1. r \in Runs /\ IInv /\ pol \in [Pollers -> PollLocal]
  BY NextGrows DEF BaseInv, IInv, StatusTypeOK
<1>2. Past(r) => Past(r)'
  BY <1>1, QueuedOnce
<1>3. CASE r \in cleanup[p] /\ pol[p].pc = "save" /\ pol[p].id = r /\ pol[p].run.status # "QUEUED"
  <2>1. CASE SavePolled(p)
    <3> DEFINE o == pol[p].run
    <3>1. o \in Row /\ o \in Updates /\ rows \in [Runs -> Stored] /\ rows[r] \in Stored
      BY <1>1, BlankUpdates DEF PollLocal, BaseInv, IInv, StoreInv, StoreTypeOK
    <3>2. o.status \in {"PENDING", "RUNNING", "STOPPED"}
      <4>1. Calm(o)
        BY <1>1, <1>3, <3>1 DEF NoRetryInv, Writing
      <4> QED BY <1>3, <3>1, <4>1 DEF Calm, Row, Columns, Statuses
    <3>3. CASE Exists(r)
      <4>1. rows[r] \in Row /\ rows'[r] = UpdateWith(rows[r], o)
        BY <1>1, <1>3, <2>1, <3>1, <3>3
        DEF SavePolled, UpdateRun, Exists, Row, Stored, Columns
      <4>2. UpdateWith(rows[r], o).status \in Statuses
        BY <3>1, <4>1, UpdateWithRow DEF Row, Columns
      <4> QED BY <3>1, <3>2, <4>1, <4>2, MergedStatus DEF Past, Statuses, Unsaved
    <3>4. CASE ~Exists(r)
      <4>1. Saved(r)
        BY <1>3 DEF BaseInv, HandsInv
      <4> QED BY <1>2, <3>4, <4>1 DEF Exists, Saved, Past, Statuses
    <3> QED BY <3>3, <3>4
  <2>2. CASE ~SavePolled(p)
    <3>1. cleanup \in [Pollers -> SUBSET Runs]
      BY <1>1 DEF IInv, StatusTypeOK
    <3>2. CASE PollCrash(p)
      BY <3>1, <3>2 DEF PollCrash
    <3>3. CASE \E x \in Runs : CleanupRun(p, x)
      BY <1>3, <3>3 DEF CleanupRun
    <3> QED
      BY <1>1, <1>3, <2>2, <3>2, <3>3, PollMoves
      DEF PollMove, PollAdvances, Reload, FetchNotFound, FetchJob, FetchError, SaveFails,
          ListAndLock
  <2> QED BY <2>1, <2>2
<1>4. CASE /\ pol[p].pc = "fetch" /\ pol'[p].pc = "save" /\ pol'[p].id = r
           /\ pol'[p].run.status # pol[p].run.status
  <2>1. Fetched(r, pol[p].run, pol'[p].run) /\ pol[p].run \in Row
    BY <1>1, <1>4, PollHands DEF PollHand, PollLocal
  <2>2. pol'[p].run.status \in {"RUNNING", "STOPPED"}
    BY <1>1, <1>4, <2>1, FetchedStatus
  <2> QED BY <1>4, <2>2
<1> QED BY <1>1, <1>2, <1>3, <1>4, PollHands DEF CleanInv

\* A run whose job is gone will not be executed again.
Gone(r) == launched[r] > 0 /\ jobs[r] = "absent"
OnceInv ==
  \A r \in Runs :
    /\ launched[r] <= 1
    /\ Gone(r) => Past(r) /\ ~Executing(r)

\* A job goes only when its run is over, and nobody is about to execute it.
LEMMA RemovedPast ==
  ASSUME Terminators = {}, Faults \intersect {"stuck", "ttl"} = {},
         BaseInv, CleanInv, NEW r \in Runs, Removed(r)
  PROVE  Past(r) /\ ~Executing(r)
<1>1. LongAfter(r) /\ (JobCollected(r) \/ \E p \in Pollers : CleanupRun(p, r))
  BY DEF Removed
<1>2. ~Executing(r)
  BY <1>1 DEF LongAfter, Executing, BaseInv, IInv, SubmitInv
<1>3. Past(r)
  BY <1>1 DEF LongAfter, JobCollected, CleanupRun, CleanInv, Past, Unsaved
<1> QED BY <1>2, <1>3

\* Only a QUEUED run comes to be executed.
LEMMA ExecutingStep ==
  ASSUME IInv, [Next]_vars, NEW r \in Runs, Executing(r)'
  PROVE  Executing(r) \/ ~Past(r)
BY SubmitHands DEF Executing, SubmitHand, Past

\* A run gets a job only while it is QUEUED, and no second one.
LEMMA OnceNext ==
  ASSUME "NEEDS_RETRY" \notin ReportStatuses, Terminators = {},
         Faults \intersect {"db", "stuck", "ttl"} = {},
         BaseInv, NoRetryInv, CleanInv, OnceInv, [Next]_vars
  PROVE  OnceInv'
<1> SUFFICES ASSUME NEW r \in Runs
             PROVE  /\ launched'[r] <= 1
                    /\ Gone(r)' => Past(r)' /\ ~Executing(r)'
  BY DEF OnceInv
<1>1. /\ launched \in [Runs -> Nat] /\ jobs \in [Runs -> JobStates]
      /\ launched[r] <= 1 /\ (Gone(r) => Past(r) /\ ~Executing(r))
  BY DEF BaseInv, IInv, StoreInv, StoreTypeOK, OnceInv
<1>2. Past(r) => Past(r)'
  BY QueuedOnce
<1>3. Past(r) /\ ~Executing(r) => ~Executing(r)'
  BY ExecutingStep DEF BaseInv
<1>4. CASE jobs'[r] = jobs[r] /\ launched'[r] = launched[r]
  BY <1>1, <1>2, <1>3, <1>4 DEF Gone
<1>5. CASE CreateJob(r) /\ Executing(r)
  BY <1>1, <1>5 DEF CreateJob, Gone
<1>6. CASE jobs'[r] # "absent" /\ launched'[r] = launched[r]
  BY <1>1, <1>6 DEF Gone
<1>7. CASE Removed(r) /\ launched'[r] = launched[r]
  BY <1>1, <1>2, <1>3, <1>7, RemovedPast
<1> QED BY <1>4, <1>5, <1>6, <1>7, JobStep DEF BaseInv

\* However often a run is delivered, and whichever worker dies when, it gets
\* one job: as long as clients neither ask for a retry nor terminate the run,
\* the status of the run is not lost and its job not forgotten before that.
THEOREM RunsLaunchOnce ==
  ASSUME "NEEDS_RETRY" \notin ReportStatuses, Terminators = {},
         Faults \intersect {"db", "stuck", "ttl"} = {}
  PROVE  Spec => []LaunchedOnce
<1>1. Init => NoRetryInv /\ CleanInv /\ OnceInv
  BY NoRetryInit DEF Init, StatusInit, StoreInit, CleanInv, OnceInv, Gone
<1>2. BaseInv /\ NoRetryInv /\ CleanInv /\ OnceInv /\ [Next]_vars
        => NoRetryInv' /\ CleanInv' /\ OnceInv'
  BY NoRetryNext, CleanNext, OnceNext
<1>3. OnceInv => LaunchedOnce
  BY DEF OnceInv, LaunchedOnce
<1> QED BY <1>1, <1>2, <1>3, Base, PTL DEF Spec
-----------------------------------------------------------------------------
(* Rows and copies tell the truth about the job. *)

\* The job of the run was created and is over.
Over(r) == launched[r] > 0 /\ ~Live(r)

Truthful(r, row) ==
  /\ row.status \in {"PENDING", "RUNNING", "STOPPED"} => launched[r] > 0
  /\ row.status = "STOPPED" \/ row.exitCode => Over(r)

TruthInv ==
  /\ \A r \in Runs :
       /\ Truthful(r, rows[r])
       /\ rows[r].queuedAt => Exists(r)
       /\ old[r] => launched[r] > 0
       /\ \A row \in Row : Reading(r, row) \/ Writing(r, row) => Truthful(r, row)
       /\ \A k \in News : news[<<r, k>>] # "unsent" =>
            /\ k \in Ends => Over(r)
            /\ k \in {"SUBMITTED", "RUNNING"} => launched[r] > 0
  /\ \A p \in Pollers : \A r \in cleanup[p] : Over(r)

\* A job that is over is the last one of its run.
LEMMA OverStays ==
  ASSUME BaseInv, OnceInv, [Next]_vars, NEW r \in Runs, Over(r)
  PROVE  Over(r)'
<1>1. launched'[r] > 0
  BY LaunchedStays DEF Over
<1>2. ~(CreateJob(r) /\ Executing(r))
  BY DEF Over, OnceInv, Gone, CreateJob
<1> QED BY <1>1, <1>2, JobStep DEF BaseInv, Over, Live

\* A copy that told the truth about its run goes on doing so.
LEMMA TruthfulStays ==
  ASSUME BaseInv, OnceInv, [Next]_vars, NEW r \in Runs, NEW row, Truthful(r, row)
  PROVE  Truthful(r, row)'
BY LaunchedStays, OverStays DEF Truthful

\* What the workers make of rows that tell the truth does so, too.
LEMMA MadeTruthful ==
  ASSUME BadCluster = {}, SparkRuns = {} \/ "cluster" \notin Faults,
         BaseInv, OnceInv, TruthInv, [Next]_vars,
         NEW r \in Runs, NEW row \in Row, Made(r, row)
  PROVE  Truthful(r, row)'
<1>1. ASSUME NEW w \in Submitters, sub[w].pc = "execute", RunOf(w) = r,
             Executed(r, sub[w].run, row)
      PROVE  Truthful(r, row)'
  <2>1. PICK run \in Row : run = sub[w].run
    BY DEF BaseInv, IInv, SubmitTypeOK, SubmitLocal
  <2>2. Reading(r, run) /\ Executing(r) /\ run.status = "QUEUED"
    BY <1>1, <2>1 DEF Reading, Executing, BaseInv, HandsInv
  <2>3. Truthful(r, run) /\ Truthful(r, run)'
    BY <2>2, TruthfulStays DEF TruthInv
  <2>4. ~Gone(r)
    BY <2>2 DEF OnceInv
  <2>5. CASE r \notin SparkRuns /\ jobs[r] # "absent" /\ row = run
    BY <2>3, <2>5
  <2>6. CASE CreateJob(r)
    <3>1. launched'[r] > 0
      BY <2>6 DEF BaseInv, IInv, StoreInv, StoreTypeOK, CreateJob
    <3>2. ~run.exitCode
      BY <2>3, <2>4, <2>6 DEF Truthful, Over, Gone, CreateJob
    <3>3. ASSUME NEW found \in BOOLEAN,
                 row = [run EXCEPT !.status = "RUNNING", !.podName = @ \/ found]
          PROVE  row.status = "RUNNING" /\ row.exitCode = run.exitCode
      BY <3>3 DEF Row, Columns
    <3>4. row = [run EXCEPT !.status = "QUEUED", !.spark = "saved"]
            => row.status = "QUEUED" /\ row.exitCode = run.exitCode
      BY DEF Row, Columns
    <3>5. r \in SparkRuns => "cluster" \notin Faults
      OBVIOUS
    <3>6. row.status \in {"QUEUED", "RUNNING"} /\ ~row.exitCode
      BY <1>1, <2>1, <2>6, <3>2, <3>3, <3>4, <3>5 DEF Executed, CreateJob
    <3> QED BY <3>1, <3>6 DEF Truthful
  <2>7. CASE r \in SparkRuns /\ row = [run EXCEPT !.status = "QUEUED", !.spark = "saved"]
             /\ ~CreateJob(r)
    <3>1. row.status = "QUEUED" /\ row.exitCode = run.exitCode
      BY <2>7 DEF Row, Columns
    <3> QED BY <2>3, <3>1 DEF Truthful
  <2> QED BY <1>1, <2>1, <2>5, <2>6, <2>7 DEF Executed
<1>2. ASSUME NEW p \in Pollers, pol[p].pc = "fetch", pol[p].id = r, Fetched(r, pol[p].run, row)
      PROVE  Truthful(r, row)
  <2>1. PICK run \in Row : run = pol[p].run
    BY DEF BaseInv, IInv, StatusTypeOK, PollLocal
  <2>2. Truthful(r, run)
    BY <1>2, <2>1 DEF TruthInv, Reading
  <2>3. jobs[r] # "absent" => launched[r] > 0
    BY DEF BaseInv, LaunchInv
  <2>4. CASE jobs[r] = "absent" /\ old[r]
    BY <2>4 DEF TruthInv, Truthful, Over, Live
  <2>5. ASSUME NEW pod \in BOOLEAN, NEW lag \in BOOLEAN, jobs[r] # "absent",
               row = FetchUpdateStatus(run, jobs[r], pod, lag)
        PROVE  Truthful(r, row)
    <3> DEFINE named == [run EXCEPT !.podName = @ \/ pod]
    <3>1. named \in Row /\ named.status = run.status /\ named.exitCode = run.exitCode
      <4>1. named \in Row
        BY RowWith
      <4> QED BY <4>1 DEF Row, Columns
    <3>2. row = AdaptJob(jobs[r], named, pod /\ lag)
      BY <2>5 DEF FetchUpdateStatus
    <3> HIDE DEF named
    <3>3. \/ row = named
          \/ jobs[r] = "active" /\ row.status = "RUNNING" /\ row.exitCode = named.exitCode
          \/ ~Live(r)
      BY <3>1, <3>2 DEF AdaptJob, Stop, Live, Row, Columns
    <3> QED BY <2>2, <2>3, <2>5, <3>1, <3>3 DEF Truthful, Over
  <2> QED BY <1>2, <2>1, <2>4, <2>5 DEF Fetched
<1>3. ASSUME NEW e \in EventWorkers, NEW k \in News, Take(e, r, k), row = Noted(rows[r], k)
      PROVE  Truthful(r, row)
  <2>1. rows[r] \in Row /\ Truthful(r, rows[r])
    BY <1>3
    DEF Take, Found, Exists, BaseInv, IInv, StoreInv, StoreTypeOK, Row, Stored, Columns, TruthInv
  <2>2. /\ k \in Ends => Over(r)
        /\ k \in {"SUBMITTED", "RUNNING"} => launched[r] > 0
    BY <1>3 DEF Take, TruthInv
  <2>3. \/ row.status = rows[r].status /\ row.exitCode = rows[r].exitCode
        \/ /\ k \in {"SUBMITTED", "RUNNING"} /\ row.status \in {"PENDING", "RUNNING"}
           /\ row.exitCode = rows[r].exitCode
        \/ k \in Ends
    BY <1>3, <2>1 DEF Noted, AddPodEvent, Row, Columns
  <2> QED BY <2>1, <2>2, <2>3 DEF Truthful, Over
<1>4. row = rows[r] => Truthful(r, row)
  BY DEF TruthInv
<1>5. Truthful(r, row) => Truthful(r, row)'
  BY TruthfulStays
<1> QED BY <1>1, <1>2, <1>3, <1>4, <1>5 DEF Made

\* What a step writes, reads, reports or schedules tells the truth.
LEMMA TruthNext ==
  ASSUME ReportStatuses = {}, Terminators = {}, BadCluster = {},
         Faults \intersect {"db", "stuck", "ttl", "late"} = {},
         SparkRuns = {} \/ "cluster" \notin Faults,
         BaseInv, NoRetryInv, OnceInv, TruthInv, [Next]_vars
  PROVE  TruthInv'
<1>1. \A r \in Runs : Over(r) => Over(r)'
  BY OverStays
<1>2. ASSUME NEW r \in Runs
      PROVE  Truthful(r, rows[r])' /\ (rows'[r].queuedAt => Exists(r)')
  <2>1. Truthful(r, rows[r]) /\ (rows[r].queuedAt => Exists(r))
    BY DEF TruthInv
  <2>2. CASE rows'[r] = rows[r]
    <3>1. PICK row : row = rows[r]
      OBVIOUS
    <3> QED BY <2>1, <2>2, <3>1, TruthfulStays DEF Exists, Truthful
  <2>3. ASSUME NEW o \in Updates, rows[r] \in Row, Source(r, o), rows'[r] = UpdateWith(rows[r], o),
               UNCHANGED <<jobs, launched, old>>
        PROVE  Truthful(r, rows[r])' /\ Exists(r)'
    <3>1. rows'[r] \in Row /\ rows'[r].exitCode = (rows[r].exitCode \/ o.exitCode)
      BY <2>3, UpdateWithRow DEF UpdateWith
    <3>2. rows'[r].status \in {rows[r].status, o.status} /\ rows'[r].status \in Statuses
      BY <2>3, <3>1, MergedStatus DEF Row, Columns
    <3>3. Truthful(r, o)
      <4>1. Writing(r, o) /\ o \in Row => Truthful(r, o)
        BY DEF TruthInv
      <4>2. NoStatus \notin {"PENDING", "RUNNING", "STOPPED"}
        BY DEF NoStatus
      <4> QED BY <2>3, <4>1, <4>2, SourceColumns DEF Truthful
    <3>4. /\ rows'[r].status \in {"PENDING", "RUNNING", "STOPPED"} => launched[r] > 0
          /\ rows'[r].status = "STOPPED" \/ rows'[r].exitCode => Over(r)
      BY <2>1, <3>1, <3>2, <3>3 DEF Truthful
    <3> QED BY <2>3, <3>2, <3>4 DEF Truthful, Over, Live, Exists
  <2>4. CASE rows'[r] = NewRun(r)
    BY <2>4 DEF NewRun, Blank, Truthful
  <2>5. CASE rows'[r] = Blank(Deleted)
    BY <2>5 DEF Blank, Truthful, Deleted
  <2> QED BY <2>2, <2>3, <2>4, <2>5, RowStep DEF BaseInv
<1>3. ASSUME NEW r \in Runs, old'[r]
      PROVE  launched'[r] > 0
  <2>1. CASE old[r]
    BY <2>1, LaunchedStays DEF TruthInv
  <2>2. CASE HalfHour(r)
    BY <2>2, LaunchedStays DEF HalfHour, TruthInv, Truthful, Exists, Statuses
  <2> QED BY <1>3, <2>1, <2>2, OldStep DEF BaseInv
<1>4. ASSUME NEW r \in Runs, NEW row \in Row, (Reading(r, row) \/ Writing(r, row))'
      PROVE  Truthful(r, row)'
  <2>1. CASE Reading(r, row)'
    BY <2>1, ReadingStep, TruthfulStays DEF BaseInv, TruthInv
  <2>2. CASE Writing(r, row)'
    BY <2>2, WritingStep, MadeTruthful, TruthfulStays DEF BaseInv, TruthInv
  <2> QED BY <1>4, <2>1, <2>2
<1>5. ASSUME NEW r \in Runs, NEW k \in News, news'[<<r, k>>] # "unsent"
      PROVE  /\ k \in Ends => Over(r)'
             /\ k \in {"SUBMITTED", "RUNNING"} => launched'[r] > 0
  <2>1. CASE news[<<r, k>>] # "unsent"
    BY <1>1, <2>1, LaunchedStays DEF TruthInv
  <2>2. CASE Sent(r, k) /\ UNCHANGED store
    <3>1. /\ k \in Ends => jobs[r] \in {"succeeded", "failed"}
          /\ k \in {"SUBMITTED", "RUNNING"} => jobs[r] \in {"pending", "active"}
      BY <2>2, EventAssumption DEF Sent, About, Cause, Ends, EmrStates, EksReasons
    <3>2. jobs[r] # "absent" => launched[r] > 0
      BY DEF BaseInv, LaunchInv
    <3> QED BY <2>2, <3>1, <3>2 DEF Over, Live, store
  <2>3. ASSUME NEW e \in EventWorkers, Deletes(e, r, k)
        PROVE  news[<<r, k>>] # "unsent"
    BY <2>3 DEF Deletes, BaseInv, HandsInv, Held
  <2> QED BY <1>5, <2>1, <2>2, <2>3, NewsStep DEF BaseInv, Redeliver
<1>6. ASSUME NEW p \in Pollers, NEW r \in cleanup'[p]
      PROVE  Over(r)'
  <2>1. r \in Runs /\ IInv'
    BY NextGrows DEF BaseInv, IInv, StatusTypeOK
  <2>2. CASE r \in cleanup[p]
    BY <1>1, <2>1, <2>2 DEF TruthInv
  <2>3. CASE pol'[p].pc = "save" /\ pol'[p].id = r /\ pol'[p].run.exitCode
    <3>1. PICK row \in Row : row = pol'[p].run
      BY <2>1 DEF IInv, StatusTypeOK, PollLocal
    <3>2. Writing(r, row)'
      BY <2>3, <3>1 DEF Writing
    <3> QED BY <1>4, <2>1, <2>3, <3>1, <3>2 DEF Truthful
  <2> QED BY <2>2, <2>3, PollHands DEF BaseInv
<1> QED BY <1>2, <1>3, <1>4, <1>5, <1>6 DEF TruthInv

\* What the theorems about the truth of the table assume of the world: that
\* clients do not overrule the workers, and that calls get through in time.
Undisturbed ==
  /\ ReportStatuses = {} /\ Terminators = {} /\ BadCluster = {}
  /\ Faults \intersect {"db", "stuck", "ttl", "late"} = {}
  /\ SparkRuns = {} \/ "cluster" \notin Faults

\* They do so in every state of an undisturbed system.
LEMMA TruthAlways ==
  ASSUME Undisturbed
  PROVE  Spec => [](BaseInv /\ TruthInv)
<1>1. Init => NoRetryInv /\ CleanInv /\ OnceInv
  BY NoRetryInit DEF Init, StatusInit, StoreInit, CleanInv, OnceInv, Gone
<1>2. Init => TruthInv
  <2>1. Blank(Unsaved).status = Unsaved /\ ~Blank(Unsaved).exitCode /\ ~Blank(Unsaved).queuedAt
        /\ Unsaved \notin {"PENDING", "RUNNING", "STOPPED"}
    BY DEF Unsaved, Blank
  <2>2. /\ Polling.pc = "poll" /\ NotPolling.pc = "idle" /\ Receiving.pc = "receive"
        /\ Untracked.pc = "load"
    BY DEF Polling, NotPolling, Receiving, Untracked
  <2> QED
    BY <2>1, <2>2
    DEF Init, StoreInit, SubmitInit, StatusInit, EventInit, TrailInit, TruthInv, Truthful,
        Reading, Writing
<1>3. BaseInv /\ NoRetryInv /\ CleanInv /\ OnceInv /\ TruthInv /\ [Next]_vars
        => NoRetryInv' /\ CleanInv' /\ OnceInv' /\ TruthInv'
  BY NoRetryNext, CleanNext, OnceNext, TruthNext DEF Undisturbed
<1> QED BY <1>1, <1>2, <1>3, Base, PTL DEF Spec

\* A run that is STOPPED in the table has no job that still runs: unless a
\* client or the half hour ends it, a run is STOPPED only after its job.
THEOREM StoppedIsOver ==
  ASSUME Undisturbed
  PROVE  Spec => []StoppedHasNoLiveJob
<1>1. TruthInv => StoppedHasNoLiveJob
  BY DEF TruthInv, Truthful, Over, StoppedHasNoLiveJob
<1> QED BY <1>1, TruthAlways, PTL

\* The cleanup of a run, two minutes after it was polled, meets no live job.
THEOREM CleanupIsSafe ==
  ASSUME Undisturbed
  PROVE  Spec => CleanupSparesLiveJobs
<1>1. BaseInv /\ TruthInv =>
        [\A p \in Pollers, r \in Runs : r \in cleanup[p] \ cleanup'[p] /\ Live(r) =>
           jobs'[r] = jobs[r]]_vars
  BY DEF TruthInv, Over
<1> QED BY <1>1, TruthAlways, PTL DEF CleanupSparesLiveJobs
-----------------------------------------------------------------------------
(* Queued runs are on their way. *)

Stopping(r) == \E t \in Terminators : trm[t].pc = "stop" /\ trm[t].run = r
Carried(r) == \E m \in Msgs : InFlight(m) /\ body[m] = r

\* A queued run without a job was never launched, or is about to be stopped;
\* one that was never launched has a message, or its request is to send one.
WayInv ==
  \A r \in Runs : rows[r].status = "QUEUED" =>
    /\ Carried(r) \/ req[r] = "saved" \/ Stopping(r) \/ jobs[r] # "absent"
    /\ launched[r] > 0 => jobs[r] # "absent" \/ Stopping(r)

\* A goroutine about to stop a run does so.
LEMMA StoppingStep ==
  ASSUME "terminate" \notin Faults, IInv, [Next]_vars, NEW r \in Runs, Stopping(r)
  PROVE  Stopping(r)' \/ rows'[r].status # "QUEUED"
<1>1. PICK t \in Terminators : trm[t].pc = "stop" /\ trm[t].run = r
  BY DEF Stopping
<1>2. trm \in [Terminators -> TerminateLocal] /\ rows \in [Runs -> Stored]
  BY DEF IInv, TerminateTypeOK, StoreInv, StoreTypeOK
<1>3. CASE trm'[t] = trm[t]
  BY <1>1, <1>3 DEF Stopping
<1>4. CASE MarkStopped(t)
  <2>1. Report("STOPPED", TRUE) \in Updates /\ Report("STOPPED", TRUE).status = "STOPPED"
    BY BlankUpdates DEF Report, Blank, Statuses
  <2>2. CASE Exists(r)
    <3>1. rows[r] \in Row /\ rows'[r] = UpdateWith(rows[r], Report("STOPPED", TRUE))
      BY <1>1, <1>2, <1>4, <2>2 DEF MarkStopped, UpdateRun, Exists, Row, Stored, Columns
    <3> QED BY <2>1, <3>1, MergedStatus
  <2>3. CASE ~Exists(r)
    BY <1>1, <1>4, <2>3 DEF MarkStopped, UpdateRun, Exists, Statuses
  <2> QED BY <2>2, <2>3
<1>5. ASSUME NEW u \in Terminators \ {t}, NEW l, trm' = [trm EXCEPT ![u] = l]
      PROVE  trm'[t] = trm[t]
  BY <1>2, <1>5
<1>6. CASE TerminateStep \/ EmrTerminateStep
  <2>1. PICK u \in Terminators :
          \/ DeleteJob(u) \/ NoClient(u) \/ MarkStopped(u) \/ CancelJobRun(u) \/ CancelRefused(u)
          \/ \E x \in Runs : LoadRun(u, x)
    BY <1>6 DEF TerminateStep, EmrTerminateStep, TerminateAdvances, TerminateFails
  <2>2. CASE u = t
    BY <1>1, <1>4, <2>1, <2>2
    DEF DeleteJob, DeletesEks, NoClient, CancelJobRun, CancelsEmr, CancelRefused, LoadRun
  <2>3. CASE u # t
    <3>1. trm'[t] = trm[t]
      BY <1>2, <2>1, <2>3
      DEF DeleteJob, NoClient, MarkStopped, CancelJobRun, CancelRefused, TerminateError, LoadRun
    <3> QED BY <1>3, <3>1
  <2> QED BY <2>2, <2>3
<1> QED
  BY <1>3, <1>6
  DEF Next, OfRequests, OfSubmit, OfRetry, OfStatus, OfEvents, OfTrail, OfEnvironment, vars

\* A message in flight stays so until the worker that holds it acknowledges it.
LEMMA CarriedStep ==
  ASSUME IInv, [Next]_vars, NEW r \in Runs, Carried(r)
  PROVE  Carried(r)' \/ \E w \in Submitters : sub[w].pc = "ack" /\ RunOf(w) = r
<1>1. PICK m \in Msgs : InFlight(m) /\ body[m] = r
  BY DEF Carried
<1>2. body'[m] = r /\ queue'[m] \in MsgStates /\ queue'[m] # "unsent"
  BY <1>1, NextGrows DEF Grows, InFlight, IInv, StoreInv, StoreTypeOK
<1>3. queue \in [Msgs -> MsgStates]
  BY DEF IInv, StoreInv, StoreTypeOK
<1>4. CASE queue'[m] # "deleted"
  BY <1>2, <1>4 DEF Carried, InFlight, MsgStates
<1>5. CASE queue'[m] = "deleted"
  <2>1. queue'[m] # queue[m]
    BY <1>1, <1>5 DEF InFlight
  <2>2. ASSUME NEW x, Enqueue(x)
        PROVE  queue'[m] = queue[m] \/ queue'[m] = "visible"
    BY <1>3, <2>2 DEF Enqueue
  <2>3. CASE SubmitStep \/ EmrSubmitStep
    <3>1. ASSUME NEW w \in Submitters, Done(w)
          PROVE  sub[w].pc = "ack" /\ RunOf(w) = r
      BY <1>1, <1>3, <2>1, <3>1 DEF Done, RunOf
    <3>2. ASSUME NEW w \in Submitters, NEW n \in Msgs, ReceiveRun(w, n)
          PROVE  FALSE
      BY <1>3, <1>5, <2>1, <3>2 DEF ReceiveRun
    <3>3. ASSUME NEW n \in Msgs, VisibilityTimeout(n)
          PROVE  FALSE
      BY <1>3, <1>5, <2>1, <3>3 DEF VisibilityTimeout
    <3> QED
      BY <2>1, <2>3, <3>1, <3>2, <3>3
      DEF SubmitStep, EmrSubmitStep, SubmitAdvances, LoadQueued, LoadOther, NoExecutable,
          Execute, ExecuteRejected, ExecuteExists, ExecuteCreated, ExecuteRetryable,
          SubmitCrash, UpdateLaunched, ExecuteSpark, ExecuteSparkFails, StartJobRun,
          CreateJob, store
  <2>4. CASE Requests \/ RetryStep
    BY <1>5, <2>1, <2>2, <2>4
    DEF Requests, RequestStep, CreateStep, SaveRun, EnqueueRun, StampQueuedAt, RequestFails,
        UpdateStatus, DeleteDefinition, RetryStep, RetryAdvances, ListNeedsRetry, SetQueued,
        EnqueueAgain, RetryFails, store
  <2>5. CASE TerminateStep \/ EmrTerminateStep \/ TrailStep \/ UNCHANGED vars
    BY <2>1, <2>5
    DEF TerminateStep, EmrTerminateStep, TerminateAdvances, DeleteJob, MarkStopped,
        NoClient, LoadRun, TerminateFails, TerminateError, CancelJobRun, CancelRefused,
        TrailStep, SaveTracked, TrailFails, LoadTracked, vars, store
  <2>6. CASE StatusStep \/ Cleanup
    BY <2>1, <2>6
    DEF StatusStep, PollAdvances, FetchError, SaveFails, PollCrash, ListAndLock, Reload,
        FetchNotFound, FetchJob, SavePolled, Cleanup, TwoMinutesLater, CleanupRun, store
  <2>7. CASE EventStep \/ Environment
    BY <2>1, <2>7
    DEF EventStep, EventAdvances, SaveNoted, CancelNoisy, DeleteNotice, SaveNotedFails,
        EventCrash, Take, TakeUnknown, LosePodEvent, Redeliver, Notify, Environment, JobStarts, JobEnds,
        SparkJobFails, HalfHour, JobCollected, SetJob, store
  <2> QED BY <2>3, <2>4, <2>5, <2>6, <2>7 DEF Next
<1> QED BY <1>4, <1>5

\* A request that saved its run goes on to send a message for it.
LEMMA SavedStep ==
  ASSUME "request" \notin Faults, IInv, [Next]_vars, NEW r \in Runs, req[r] = "saved"
  PROVE  req'[r] = "saved" \/ Carried(r)'
<1>1. req \in [Runs -> RequestStates]
  BY DEF IInv, RequestTypeOK
<1>2. CASE req'[r] = req[r]
  BY <1>2
<1>3. CASE EnqueueRun(r)
  <2>1. PICK m \in Msgs : /\ queue' = [queue EXCEPT ![m] = "visible"]
                          /\ body' = [body EXCEPT ![m] = r]
    <3> DEFINE n == CHOOSE m \in Unsent : TRUE
    <3>1. n \in Unsent
      BY <1>3 DEF EnqueueRun, Enqueue
    <3> QED BY <1>3, <3>1 DEF EnqueueRun, Enqueue, Unsent
  <2>2. queue'[m] = "visible" /\ body'[m] = r
    BY <2>1 DEF IInv, StoreInv, StoreTypeOK
  <2> QED BY <2>2 DEF Carried, InFlight
<1>4. CASE Requests
  <2>1. PICK x \in Runs : RequestStep(x)
    BY <1>4 DEF Requests
  <2>2. CASE x = r
    BY <1>2, <1>3, <2>1, <2>2
    DEF RequestStep, CreateStep, SaveRun, StampQueuedAt, RequestFails, UpdateStatus,
        DeleteDefinition, requestVars
  <2>3. CASE x # r
    BY <1>1, <1>2, <2>1, <2>3
    DEF RequestStep, CreateStep, SaveRun, EnqueueRun, StampQueuedAt, RequestFails,
        UpdateStatus, DeleteDefinition, Progress, requestVars
  <2> QED BY <2>2, <2>3
<1> QED
  BY <1>2, <1>4
  DEF Next, OfSubmit, OfRetry, OfTerminate, OfStatus, OfEvents, OfTrail, OfEnvironment,
      requestVars, vars

\* A message or a request on its way to a queued run is there until the run has a
\* job or has left QUEUED.
LEMMA WayNext ==
  ASSUME "NEEDS_RETRY" \notin ReportStatuses,
         Faults \intersect {"db", "request", "terminate", "ttl", "stuck"} = {},
         BaseInv, NoRetryInv, CleanInv, AckInv, WayInv, [Next]_vars
  PROVE  WayInv'
<1> SUFFICES ASSUME NEW r \in Runs, rows'[r].status = "QUEUED"
             PROVE  /\ \/ Carried(r)' \/ req'[r] = "saved" \/ Stopping(r)'
                       \/ jobs'[r] # "absent"
                    /\ launched'[r] > 0 => jobs'[r] # "absent" \/ Stopping(r)'
  BY DEF WayInv
<1>1. /\ launched \in [Runs -> Nat] /\ launched' \in [Runs -> Nat]
      /\ jobs[r] # "absent" => launched[r] > 0
      /\ jobs'[r] # "absent" => launched'[r] > 0
  BY NextGrows, LaunchNext DEF BaseInv, IInv, StoreInv, StoreTypeOK, LaunchInv
<1>2. ~Past(r)
  BY QueuedOnce DEF Past
<1>3. CASE rows[r].status = Unsaved
  <2>1. SaveRun(r)
    <3>1. Unsaved # "QUEUED" /\ ~Exists(r)
      BY <1>3 DEF Unsaved, Exists, Statuses
    <3> QED BY <1>3, <3>1, RowStep DEF BaseInv, DeleteDefinition
  <2>2. req'[r] = "saved" /\ launched'[r] = launched[r]
    BY <2>1 DEF SaveRun, Progress, BaseInv, IInv, RequestTypeOK
  <2>3. ~(launched[r] > 0)
    BY <1>3 DEF BaseInv, LaunchInv, Saved
  <2> QED BY <2>2, <2>3
<1>4. CASE rows[r].status = "QUEUED"
  <2>1. Stopping(r) => Stopping(r)'
    BY StoppingStep DEF BaseInv
  <2>2. launched'[r] > 0 => jobs'[r] # "absent" \/ Stopping(r)'
    <3>1. CASE jobs'[r] = jobs[r] /\ launched'[r] = launched[r]
      BY <1>4, <2>1, <3>1 DEF WayInv
    <3>2. CASE CreateJob(r)
      BY <3>2 DEF CreateJob, BaseInv, IInv, StoreInv, StoreTypeOK
    <3>3. CASE Removed(r)
      <4>1. ~(LongAfter(r) /\ JobCollected(r))
        BY <1>4 DEF JobCollected
      <4>2. ~(LongAfter(r) /\ \E p \in Pollers : CleanupRun(p, r))
        BY <1>2 DEF LongAfter, CleanupRun, CleanInv
      <4>3. PICK t \in Terminators : DeleteJob(t) /\ trm[t].run = r
        BY <3>3, <4>1, <4>2 DEF Removed
      <4>4. trm'[t].pc = "stop" /\ trm'[t].run = r
        BY <4>3 DEF DeleteJob, BaseInv, IInv, TerminateTypeOK, TerminateLocal
      <4> QED BY <4>4 DEF Stopping
    <3> QED BY <3>1, <3>2, <3>3, JobStep DEF BaseInv
  <2>3. CASE launched'[r] > 0
    BY <2>2, <2>3
  <2>4. CASE ~(launched'[r] > 0)
    <3>1. ~(launched[r] > 0) /\ jobs[r] = "absent"
      BY <1>1, <2>4, LaunchedStays
    <3>2. Carried(r) => Carried(r)'
      <4>1. ASSUME NEW w \in Submitters, sub[w].pc = "ack", RunOf(w) = r
            PROVE  FALSE
        BY <1>4, <3>1, <4>1 DEF AckInv
      <4> QED BY <4>1, CarriedStep DEF BaseInv
    <3>3. req[r] = "saved" => req'[r] = "saved" \/ Carried(r)'
      BY SavedStep DEF BaseInv
    <3> QED BY <1>4, <2>1, <2>4, <3>1, <3>2, <3>3 DEF WayInv
  <2> QED BY <2>3, <2>4
<1> QED BY <1>2, <1>3, <1>4 DEF Past

\* A queued run is never stranded, whichever workers die and however often
\* messages come again: when the database answers, requests and terminations
\* get to their last write, and no client asks for a retry.
THEOREM QueuedIsNotStranded ==
  ASSUME "NEEDS_RETRY" \notin ReportStatuses,
         Faults \intersect {"db", "request", "terminate", "ttl", "stuck"} = {}
  PROVE  Spec => []QueuedIsOnItsWay
<1>1. Init => NoRetryInv /\ CleanInv /\ AckInv /\ WayInv
  <2>1. Blank(Unsaved).status # "QUEUED"
    BY DEF Unsaved, Blank
  <2> QED
    BY <2>1, NoRetryInit
    DEF Init, StoreInit, SubmitInit, StatusInit, Polling, CleanInv, AckInv, WayInv
<1>2. BaseInv /\ NoRetryInv /\ CleanInv /\ AckInv /\ WayInv /\ [Next]_vars
        => NoRetryInv' /\ CleanInv' /\ AckInv' /\ WayInv'
  BY NoRetryNext, CleanNext, AckNext, WayNext
<1>3. WayInv => QueuedIsOnItsWay
  BY DEF WayInv, QueuedIsOnItsWay, OnItsWay, Carried, Stopping
<1> QED BY <1>1, <1>2, <1>3, Base, PTL DEF Spec
-----------------------------------------------------------------------------
(* Jobs at the limit of pod events are cancelled. *)

\* Each notification in hand is hidden, and in the hands of one worker.
HeldInv ==
  \A e \in EventWorkers : evt[e].pc # "receive" =>
    /\ news[Held(e)] = "hidden"
    /\ \A f \in EventWorkers \ {e} : evt[f].pc # "receive" => Held(f) # Held(e)

\* What a worker has in hand it had before, or takes now.
LEMMA HeldStep ==
  ASSUME IInv, [Next]_vars, NEW e \in EventWorkers, evt'[e].pc # "receive"
  PROVE  \/ evt[e].pc # "receive" /\ Held(e)' = Held(e) /\ ~DeleteNotice(e)
         \/ \E r \in Runs, k \in News : Take(e, r, k) /\ Held(e)' = <<r, k>>
<1>1. evt \in [EventWorkers -> EventLocal] /\ Receiving.pc = "receive"
  BY DEF IInv, EventTypeOK, Receiving
<1>2. CASE evt'[e] = evt[e]
  <2>1. Held(e)' = Held(e)
    BY <1>2 DEF Held
  <2>2. ~DeleteNotice(e)
    BY <1>1, <1>2, <2>1 DEF DeleteNotice, Receive
  <2> QED BY <1>2, <2>1, <2>2
<1>3. CASE SaveNoted(e) \/ SaveNotedFails(e) \/ CancelNoisy(e)
  <2>1. evt[e].pc \in {"save", "cancel"} /\ evt'[e].run = evt[e].run /\ evt'[e].kind = evt[e].kind
    BY <1>1, <1>3 DEF SaveNoted, SaveNotedFails, CancelNoisy, Then, Receive, EventLocal
  <2> QED BY <2>1 DEF Held, DeleteNotice
<1>4. CASE DeleteNotice(e) \/ EventCrash(e)
  BY <1>1, <1>4 DEF DeleteNotice, EventCrash, Receive
<1>5. ASSUME NEW r \in Runs, NEW k \in News, Take(e, r, k)
      PROVE  Held(e)' = <<r, k>>
  <2>1. evt'[e].run = r /\ evt'[e].kind = k
    BY <1>1, <1>5 DEF Take
  <2> QED BY <2>1 DEF Held
<1> QED
  BY <1>2, <1>3, <1>4, <1>5, EventMoves DEF EventMove, EventAdvances

\* A notification in hand comes again only when its worker has let go of it.
LEMMA HeldNext ==
  ASSUME "slow" \notin Faults, IInv, HeldInv, [Next]_vars
  PROVE  HeldInv'
<1>1. evt \in [EventWorkers -> EventLocal] /\ news \in [Runs \X News -> NewsStates]
  BY DEF IInv, EventTypeOK
<1>2. ASSUME NEW e \in EventWorkers, evt'[e].pc # "receive"
      PROVE  news'[Held(e)'] = "hidden"
  <2>1. CASE evt[e].pc # "receive" /\ Held(e)' = Held(e) /\ ~DeleteNotice(e)
    <3>1. PICK r \in Runs, k \in News : r = evt[e].run /\ k = evt[e].kind
      BY <2>1 DEF IInv, EventInv
    <3>2. news[<<r, k>>] = "hidden" /\ Held(e) = <<r, k>>
      BY <2>1, <3>1 DEF HeldInv, Held
    <3>3. ~Redeliver(r, k)
      BY <3>1 DEF Redeliver
    <3>4. ASSUME NEW f \in EventWorkers, Deletes(f, r, k)
          PROVE  FALSE
      <4>1. evt[f].pc # "receive" /\ Held(f) = Held(e) /\ DeleteNotice(f)
        BY <3>1, <3>4 DEF Deletes, Held
      <4> QED BY <2>1, <4>1 DEF HeldInv
    <3>5. news'[<<r, k>>] = "hidden"
      BY <3>2, <3>3, <3>4, NewsStep DEF Sent
    <3> QED BY <2>1, <3>2, <3>5
  <2>2. ASSUME NEW r \in Runs, NEW k \in News, Take(e, r, k), Held(e)' = <<r, k>>
        PROVE  news'[Held(e)'] = "hidden"
    BY <1>1, <2>2 DEF Take, Put
  <2> QED BY <1>2, <2>1, <2>2, HeldStep
<1>3. ASSUME NEW e \in EventWorkers, NEW f \in EventWorkers \ {e},
             evt'[e].pc # "receive", evt'[f].pc # "receive",
             NEW r \in Runs, NEW k \in News, Take(e, r, k), Held(e)' = <<r, k>>
      PROVE  Held(f)' # Held(e)'
  <2>1. evt'[f] = evt[f] /\ news[<<r, k>>] = "visible"
    BY <1>1, <1>3 DEF Take
  <2>2. news[Held(f)] = "hidden" /\ Held(f)' = Held(f)
    BY <1>3, <2>1 DEF HeldInv, Held
  <2> QED BY <1>3, <2>1, <2>2
<1>4. ASSUME NEW e \in EventWorkers, NEW f \in EventWorkers \ {e},
             evt'[e].pc # "receive", evt'[f].pc # "receive"
      PROVE  Held(f)' # Held(e)'
  <2>1. CASE evt[e].pc # "receive" /\ evt[f].pc # "receive" /\ Held(e)' = Held(e) /\ Held(f)' = Held(f)
    BY <2>1 DEF HeldInv
  <2> QED BY <1>3, <1>4, <2>1, HeldStep
<1> QED
  <2>1. \A e \in EventWorkers : Held(e)' = Held(e)'
    OBVIOUS
  <2> QED BY <1>2, <1>4 DEF HeldInv, Held

Noisy(row) == row.events >= MaxPodEvents

\* A worker is to cancel the job: it is about to save the event that makes the
\* limit, or has saved it.
Cancelling(r) ==
  \E e \in EventWorkers :
    /\ evt[e].run = r /\ evt[e].kind \in PodNews
    /\ evt[e].pc = "cancel" \/ (evt[e].pc = "save" /\ Noisy(evt[e].row))

\* A row at the limit, in the table or in hand, is of a job that is over or
\* that a worker is to cancel; before the job starts there are no pod events.
NoiseInv ==
  \A r \in SparkRuns :
    /\ Noisy(rows[r]) => ~Live(r) \/ Cancelling(r)
    /\ \A row \in Row : Reading(r, row) \/ Writing(r, row) =>
         (Noisy(row) => ~Live(r) \/ Cancelling(r))
    /\ jobs[r] = "absent" =>
         /\ rows[r].events = 0
         /\ \A row \in Row : Reading(r, row) \/ Writing(r, row) => row.events = 0
         /\ \A k \in PodNews : news[<<r, k>>] = "unsent"

\* A worker that is to cancel a job does so, when nothing fails.
LEMMA CancellingStep ==
  ASSUME Faults \intersect {"db", "cluster", "crash"} = {}, BaseInv, [Next]_vars,
         NEW r \in Runs, Cancelling(r)
  PROVE  Cancelling(r)' \/ ~Live(r)'
<1>1. PICK e \in EventWorkers :
        /\ evt[e].run = r /\ evt[e].kind \in PodNews
        /\ evt[e].pc = "cancel" \/ (evt[e].pc = "save" /\ Noisy(evt[e].row))
  BY DEF Cancelling
<1>2. evt \in [EventWorkers -> EventLocal] /\ jobs \in [Runs -> JobStates]
  BY DEF BaseInv, IInv, EventTypeOK, StoreInv, StoreTypeOK
<1>3. CASE evt'[e] = evt[e]
  BY <1>1, <1>3 DEF Cancelling, Noisy
<1>4. CASE SaveNoted(e)
  <2>1. evt'[e].pc = "cancel" /\ evt'[e].run = r /\ evt'[e].kind = evt[e].kind
    BY <1>1, <1>2, <1>4 DEF SaveNoted, AtLimit, Noisy, Then, EventLocal
  <2> QED BY <1>1, <2>1 DEF Cancelling
<1>5. CASE CancelNoisy(e)
  BY <1>1, <1>2, <1>5 DEF CancelNoisy, CancelJob, Live
<1>6. ~SaveNotedFails(e) /\ ~EventCrash(e) /\ ~DeleteNotice(e)
      /\ \A x \in Runs, k \in News : ~Take(e, x, k)
  BY <1>1 DEF SaveNotedFails, EventCrash, DeleteNotice, Take
<1> QED
  BY <1>3, <1>4, <1>5, <1>6, EventMoves DEF EventMove, EventAdvances, BaseInv

\* The job of a Spark run that is not live, but for one that is to start, will
\* not be.
LEMMA SilentStep ==
  ASSUME BaseInv, [Next]_vars, NEW r \in SparkRuns
  PROVE  /\ jobs'[r] = "absent" => jobs[r] = "absent"
         /\ ~Live(r) /\ jobs[r] # "absent" => ~Live(r)'
<1>1. r \in Runs
  BY StoreAssumption
<1>2. ~Removed(r)
  BY DEF Removed, DeleteJob, DeletesEks, JobCollected, CleanupRun, BaseInv, HandsInv
<1>3. CASE jobs'[r] = jobs[r]
  BY <1>3 DEF Live
<1>4. CASE CreateJob(r)
  BY <1>1, <1>4 DEF CreateJob, BaseInv, IInv, StoreInv, StoreTypeOK
<1>5. CASE Live(r) /\ jobs'[r] # "absent"
  BY <1>5
<1> QED BY <1>1, <1>2, <1>3, <1>4, <1>5, JobStep DEF BaseInv

\* What keeps the job of a noisy run from going on stays.
LEMMA SilencedStep ==
  ASSUME Faults \intersect {"db", "cluster", "crash"} = {}, BaseInv, [Next]_vars,
         NEW r \in SparkRuns, jobs[r] # "absent", ~Live(r) \/ Cancelling(r)
  PROVE  ~Live(r)' \/ Cancelling(r)'
BY SilentStep, CancellingStep, StoreAssumption

\* The pod events of a row that a worker makes are those of the row it read,
\* but for those it adds to it.
LEMMA MadeEvents ==
  ASSUME BaseInv, NEW r \in SparkRuns, NEW row \in Row, Made(r, row)
  PROVE  \/ \E read \in Row : Reading(r, read) /\ row.events = read.events
         \/ Exists(r) /\ row.events = rows[r].events /\ UNCHANGED store
         \/ /\ UNCHANGED store
            /\ \E e \in EventWorkers, k \in PodNews :
                 Take(e, r, k) /\ row = Noted(rows[r], k)
<1>1. r \in Runs /\ \A x \in Runs : Exists(x) => rows[x] \in Row
  BY StoreAssumption
  DEF Exists, BaseInv, IInv, StoreInv, StoreTypeOK, Row, Stored, Columns
<1>2. ASSUME NEW w \in Submitters, sub[w].pc = "execute", RunOf(w) = r,
             Executed(r, sub[w].run, row)
      PROVE  \E read \in Row : Reading(r, read) /\ row.events = read.events
  <2>1. sub[w].run \in Row
    BY DEF BaseInv, IInv, SubmitTypeOK, SubmitLocal
  <2>2. row.events = sub[w].run.events
    BY <1>2, <2>1 DEF Executed, Stop, Row, Columns
  <2>3. Reading(r, sub[w].run)
    BY <1>2 DEF Reading
  <2> QED BY <2>1, <2>2, <2>3
<1>3. ASSUME NEW p \in Pollers, pol[p].pc = "fetch", pol[p].id = r
      PROVE  FALSE
  BY <1>3 DEF BaseInv, HandsInv
<1>4. ASSUME NEW e \in EventWorkers, NEW k \in News \ PodNews, Take(e, r, k),
             row = Noted(rows[r], k)
      PROVE  Exists(r) /\ row.events = rows[r].events
  <2>1. Exists(r) /\ rows[r] \in Row
    BY <1>1, <1>4 DEF Take, Found
  <2> QED BY <1>4, <2>1 DEF Noted, Stop, Row, Columns
<1> QED BY <1>2, <1>3, <1>4 DEF Made

\* The worker that brings a row to the limit of pod events is to cancel its job,
\* and does so before anybody else reads the same notification.
LEMMA NoiseNext ==
  ASSUME Faults \intersect {"db", "cluster", "crash"} = {}, BaseInv, NoiseInv, [Next]_vars
  PROVE  NoiseInv'
<1>1. /\ MaxPodEvents \in Nat \ {0} /\ PodNews \subseteq News /\ SparkRuns \subseteq Runs
      /\ \A x \in Runs : Exists(x) => rows[x] \in Row
  BY EventAssumption, StoreAssumption
  DEF News, Exists, BaseInv, IInv, StoreInv, StoreTypeOK, Row, Stored, Columns
<1>2. ASSUME NEW r \in SparkRuns, NEW row \in Row, (Reading(r, row) \/ Writing(r, row))',
             \/ \E read \in Row : (Reading(r, read) \/ Writing(r, read))
                                  /\ row.events = read.events
             \/ Exists(r) /\ row.events = rows[r].events /\ UNCHANGED store
      PROVE  /\ jobs'[r] = "absent" => row.events = 0
             /\ Noisy(row) => ~Live(r)' \/ Cancelling(r)'
  <2>1. CASE jobs[r] = "absent"
    <3>1. row.events = 0
      BY <1>2, <2>1 DEF NoiseInv
    <3> QED BY <1>1, <3>1 DEF Noisy
  <2>2. CASE jobs[r] # "absent"
    <3>1. jobs'[r] # "absent"
      BY <2>2, SilentStep
    <3>2. Noisy(row) => ~Live(r) \/ Cancelling(r)
      BY <1>2 DEF NoiseInv, Noisy
    <3> QED BY <2>2, <3>1, <3>2, SilencedStep
  <2> QED BY <2>1, <2>2
<1>3. ASSUME NEW r \in SparkRuns, NEW row \in Row, (Reading(r, row) \/ Writing(r, row))',
             NEW e \in EventWorkers, NEW k \in PodNews, Take(e, r, k), UNCHANGED store,
             row = Noted(rows[r], k)
      PROVE  /\ jobs'[r] = "absent" => row.events = 0
             /\ Noisy(row) => ~Live(r)' \/ Cancelling(r)'
  <2>1. jobs'[r] # "absent"
    BY <1>3 DEF Take, NoiseInv, store
  <2>2. evt'[e] = [pc |-> "save", run |-> r, kind |-> k, row |-> row]
    BY <1>3 DEF Take, BaseInv, IInv, EventTypeOK
  <2>3. Noisy(row) => Cancelling(r)'
    BY <2>2 DEF Cancelling, Noisy
  <2> QED BY <2>1, <2>3
<1>4. ASSUME NEW r \in SparkRuns, NEW row \in Row, (Reading(r, row) \/ Writing(r, row))'
      PROVE  /\ jobs'[r] = "absent" => row.events = 0
             /\ Noisy(row) => ~Live(r)' \/ Cancelling(r)'
  <2>1. CASE Reading(r, row)'
    BY <1>1, <1>2, <2>1, ReadingStep DEF BaseInv
  <2>2. CASE Writing(r, row)'
    BY <1>1, <1>2, <1>3, <2>2, WritingStep, MadeEvents DEF BaseInv
  <2> QED BY <1>4, <2>1, <2>2
<1>5. ASSUME NEW r \in SparkRuns, jobs'[r] = "absent", NEW k \in PodNews
      PROVE  news'[<<r, k>>] = "unsent"
  <2>1. jobs[r] = "absent" /\ news[<<r, k>>] = "unsent"
    BY <1>5, SilentStep DEF NoiseInv
  <2>2. ~Sent(r, k)
    <3>1. k \notin EmrNews
      BY EventAssumption
    <3> QED BY <2>1, <3>1 DEF Sent, About, Live
  <2>3. ASSUME NEW e \in EventWorkers
        PROVE  ~Deletes(e, r, k)
    BY <2>1 DEF Deletes, BaseInv, HandsInv, Held
  <2> QED BY <1>1, <2>1, <2>2, <2>3, NewsStep DEF BaseInv, Redeliver
<1>6. ASSUME NEW r \in SparkRuns
      PROVE  /\ jobs'[r] = "absent" => rows'[r].events = 0
             /\ Noisy(rows'[r]) => ~Live(r)' \/ Cancelling(r)'
  <2>1. CASE \/ rows'[r].events = 0
             \/ rows'[r].events = rows[r].events
             \/ \E row \in Row : Writing(r, row) /\ rows'[r].events = row.events
    <3>1. CASE jobs[r] = "absent"
      <4>1. rows'[r].events = 0
        BY <2>1, <3>1 DEF NoiseInv
      <4> QED BY <1>1, <4>1 DEF Noisy
    <3>2. CASE jobs[r] # "absent"
      <4>1. jobs'[r] # "absent"
        BY <3>2, SilentStep
      <4>2. Noisy(rows'[r]) => ~Live(r) \/ Cancelling(r)
        BY <1>1, <2>1 DEF NoiseInv, Noisy
      <4> QED BY <3>2, <4>1, <4>2, SilencedStep
    <3> QED BY <3>1, <3>2
  <2>2. ASSUME NEW o \in Updates, Source(r, o), rows'[r] = UpdateWith(rows[r], o)
        PROVE  \/ rows'[r].events = rows[r].events
               \/ \E row \in Row : Writing(r, row) /\ rows'[r].events = row.events
    <3>1. CASE o.events = 0
      BY <2>2, <3>1 DEF UpdateWith
    <3>2. CASE o.events # 0
      <4>1. rows'[r].events = o.events
        BY <2>2, <3>2 DEF UpdateWith
      <4>2. Writing(r, o) /\ o \in Row
        BY <1>1, <2>2, <3>2, SourceColumns
      <4> QED BY <4>1, <4>2
    <3> QED BY <3>1, <3>2
  <2>3. Blank(Deleted).events = 0 /\ NewRun(r).events = 0
    BY DEF Blank, NewRun
  <2> QED BY <1>1, <2>1, <2>2, <2>3, RowStep DEF BaseInv
<1> QED
  <2>1. \A row : Noisy(row)' = Noisy(row)
    BY DEF Noisy
  <2> QED BY <1>4, <1>5, <1>6 DEF NoiseInv, Noisy

\* A worker has a pod event of every job that goes on in spite of its run's
\* listing emr.max_pod_events of them: it is not waiting, and was not lost.
NoisyJobsAreInHand ==
  \A r \in SparkRuns : Noisy(rows[r]) =>
    ~Live(r) \/ \E k \in PodNews : news[<<r, k>>] = "hidden"

\* A job whose run lists as many pod events as are allowed is over, or its
\* cancellation is on its way, held by the worker whose notification is hidden:
\* when calls succeed, nobody dies, and nothing outlasts its visibility.  No
\* event need be lost or waiting for that, as NoisyJobsAreCancelled allows.
THEOREM NoisyJobsDoNotGoOn ==
  ASSUME Faults \intersect {"db", "cluster", "slow", "crash"} = {}
  PROVE  Spec => [](NoisyJobsAreInHand /\ NoisyJobsAreCancelled)
<1>1. Init => HeldInv /\ NoiseInv
  <2>1. /\ Polling.pc = "poll" /\ NotPolling.pc = "idle" /\ Receiving.pc = "receive"
        /\ Untracked.pc = "load"
    BY DEF Polling, NotPolling, Receiving, Untracked
  <2>2. Blank(Unsaved).events = 0 /\ MaxPodEvents \in Nat \ {0} /\ PodNews \subseteq News
        /\ SparkRuns \subseteq Runs
    BY EventAssumption, StoreAssumption DEF Blank, News
  <2>3. Init => \A r, row : ~Reading(r, row) /\ ~Writing(r, row)
    BY <2>1 DEF Init, SubmitInit, StatusInit, EventInit, TrailInit, Reading, Writing
  <2>4. Init => HeldInv
    BY <2>1 DEF Init, EventInit, HeldInv
  <2>5. Init => \A r \in SparkRuns : rows[r].events = 0 /\ ~Noisy(rows[r])
                  /\ \A k \in PodNews : news[<<r, k>>] = "unsent"
    BY <2>2 DEF Init, StoreInit, EventInit, Noisy
  <2>6. ASSUME Init PROVE NoiseInv
    <3>1. \A r \in SparkRuns : rows[r].events = 0 /\ ~Noisy(rows[r])
            /\ \A k \in PodNews : news[<<r, k>>] = "unsent"
      BY <2>5, <2>6
    <3>2. \A r, row : ~Reading(r, row) /\ ~Writing(r, row)
      BY <2>3, <2>6
    <3> QED BY <3>1, <3>2 DEF NoiseInv
  <2> QED BY <2>4, <2>6
<1>2. BaseInv /\ HeldInv /\ NoiseInv /\ [Next]_vars => HeldInv' /\ NoiseInv'
  BY HeldNext, NoiseNext DEF BaseInv
<1>3. BaseInv /\ HeldInv /\ NoiseInv => NoisyJobsAreInHand
  <2> SUFFICES ASSUME BaseInv, HeldInv, NoiseInv, NEW r \in SparkRuns,
                      Noisy(rows[r]), Live(r)
               PROVE  \E k \in PodNews : news[<<r, k>>] = "hidden"
    BY DEF NoisyJobsAreInHand
  <2>1. PICK e \in EventWorkers :
          evt[e].run = r /\ evt[e].kind \in PodNews /\ evt[e].pc # "receive"
    BY DEF NoiseInv, Cancelling
  <2> QED BY <2>1 DEF HeldInv, Held
<1>4. NoisyJobsAreInHand => NoisyJobsAreCancelled
  BY DEF NoisyJobsAreInHand, NoisyJobsAreCancelled, Noisy
<1> QED BY <1>1, <1>2, <1>3, <1>4, Base, PTL DEF Spec
=============================================================================
