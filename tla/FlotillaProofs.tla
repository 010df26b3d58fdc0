--------------------------- MODULE FlotillaProofs ---------------------------
(***************************************************************************)
(* Theorems about Flotilla, for every set of runs, messages and workers    *)
(* and every class of faults.  The inductive invariant says which run and  *)
(* message a worker may have in hand, and that all of them were saved; a   *)
(* step of any component lets the table and the queue only grow, so that   *)
(* it cannot disturb what another component relies on.                     *)
(***************************************************************************)
EXTENDS Flotilla, TLAPS

-----------------------------------------------------------------------------
(* What Run.UpdateWith (state/models.go) does to a row, whatever the row and
   the update. *)

\* A merged status is a status, and it is the one before unless the new one is
\* NEEDS_RETRY or of a higher precedence.
LEMMA MergeStatusMoves ==
  ASSUME NEW was \in Statuses, NEW new \in Statuses \union {NoStatus}
  PROVE  LET s == MergeStatus(was, new) IN
         /\ s \in Statuses
         /\ s = was \/ s = "NEEDS_RETRY" \/ Precedence[s] > Precedence[was]
BY DEF MergeStatus, Statuses, Precedence, NoStatus

\* Precedence tells the five statuses apart.
LEMMA PrecedenceOrders ==
  /\ \A s \in Statuses : Precedence[s] \in Int
  /\ \A s, t \in Statuses : Precedence[s] = Precedence[t] => s = t
BY DEF Statuses, Precedence

\* Two workers that report statuses other than NEEDS_RETRY leave the same
\* status behind, in whichever order their updates reach the database.
THEOREM MergeStatusCommutes ==
  ASSUME NEW was \in Statuses,
         NEW a \in (Statuses \union {NoStatus}) \ {"NEEDS_RETRY"},
         NEW b \in (Statuses \union {NoStatus}) \ {"NEEDS_RETRY"}
  PROVE  MergeStatus(MergeStatus(was, a), b) = MergeStatus(MergeStatus(was, b), a)
<1>1. NoStatus \notin Statuses
  BY DEF NoStatus, Statuses
<1> QED
  BY <1>1, PrecedenceOrders, SMTT(60) DEF MergeStatus

\* An update delivered twice has the effect of one.
THEOREM UpdateWithIdempotent ==
  ASSUME NEW d \in Row, NEW o \in Updates
  PROVE  UpdateWith(UpdateWith(d, o), o) = UpdateWith(d, o)
<1> DEFINE e == UpdateWith(d, o)
<1>1. MergeStatus(MergeStatus(d.status, o.status), o.status) = MergeStatus(d.status, o.status)
  BY DEF MergeStatus, Row, Updates, Columns, Statuses, Precedence, NoStatus
<1>2. /\ (d.exitCode \/ o.exitCode) \/ o.exitCode <=> d.exitCode \/ o.exitCode
      /\ (d.queuedAt \/ o.queuedAt) \/ o.queuedAt <=> d.queuedAt \/ o.queuedAt
      /\ (d.podName \/ o.podName) \/ o.podName <=> d.podName \/ o.podName
  OBVIOUS
<1>3. \A a, b : /\ (IF b = "nil" THEN (IF b = "nil" THEN a ELSE b) ELSE b)
                    = (IF b = "nil" THEN a ELSE b)
                /\ (IF b = 0 THEN (IF b = 0 THEN a ELSE b) ELSE b)
                    = (IF b = 0 THEN a ELSE b)
  OBVIOUS
<1> QED BY <1>1, <1>2, <1>3, Zenon DEF UpdateWith

\* The merge of a row is a row; no column that was set is reset.
LEMMA UpdateWithRow ==
  ASSUME NEW d \in Row, NEW o \in Updates
  PROVE  /\ UpdateWith(d, o) \in Row
         /\ d.queuedAt => UpdateWith(d, o).queuedAt
         /\ o.queuedAt => UpdateWith(d, o).queuedAt
<1>1. d.status \in Statuses /\ o.status \in Statuses \union {NoStatus}
  BY DEF Row, Updates, Columns
<1>2. MergeStatus(d.status, o.status) \in Statuses
  BY <1>1, MergeStatusMoves
<1> QED BY <1>2 DEF UpdateWith, Row, Updates, Columns

-----------------------------------------------------------------------------
(* The invariant. *)

Saved(r) == rows[r].status # Unsaved

QueueInv ==
  \A m \in Msgs : queue[m] # "unsent" => body[m] \in Runs /\ Saved(body[m])

JobInv == \A r \in Runs : jobs[r] # "absent" => Saved(r)

RequestInv ==
  \A r \in Runs :
    /\ req[r] = "new" => ~Saved(r)
    /\ req[r] \in {"saved", "enqueued", "done"} => Saved(r)

SubmitInv ==
  \A w \in Submitters :
    /\ sub[w].pc = "poll" <=> sub[w].msg = NoMsg
    /\ sub[w].msg # NoMsg => queue[sub[w].msg] # "unsent"

RetryInv ==
  \A w \in Retriers :
    /\ ret[w].pc = "enqueue" => ret[w].run \in Runs
    /\ \A r \in Runs : r = ret[w].run \/ r \in ret[w].todo => Saved(r)

TerminateInv == \A t \in Terminators : trm[t].pc # "idle" => trm[t].run \in Runs

StatusInv == \A p \in Pollers : pol[p].pc # "idle" => pol[p].id \in Runs

EventInv ==
  \A e \in EventWorkers :
    evt[e].pc # "receive" => evt[e].run \in Runs /\ evt[e].kind \in News

TrailInv == \A c \in Trackers : trl[c].pc = "save" => trl[c].run \in Runs

StoreInv == StoreTypeOK /\ QueueInv /\ JobInv

IInv ==
  /\ StoreInv
  /\ RequestTypeOK /\ RequestInv
  /\ SubmitTypeOK /\ SubmitInv
  /\ RetryTypeOK /\ RetryInv
  /\ TerminateTypeOK /\ TerminateInv
  /\ StatusTypeOK /\ StatusInv
  /\ EventTypeOK /\ EventInv
  /\ TrailTypeOK /\ TrailInv

\* What a step of one component leaves to the others.
Grows ==
  /\ \A r \in Runs : Saved(r) => Saved(r)'
  /\ \A m \in Msgs : queue[m] # "unsent" => queue'[m] # "unsent" /\ body'[m] = body[m]

\* ... and which statuses it may give to a row.
Moves(s, t) ==
  \/ t = s
  \/ s \in Statuses /\ t \in Statuses /\ (t = "NEEDS_RETRY" \/ Precedence[t] > Precedence[s])

-----------------------------------------------------------------------------
(* The store. *)

\* UpdateRun keeps the table well formed and touches no row but that of the
\* run, and that one only if it exists.
LEMMA UpdateRunRows ==
  ASSUME rows \in [Runs -> Stored], NEW r \in Runs, NEW o \in Updates, UpdateRun(r, o)
  PROVE  /\ rows' \in [Runs -> Stored]
         /\ \A x \in Runs : Moves(rows[x].status, rows'[x].status)
         /\ \A x \in Runs : Exists(x) <=> Exists(x)'
         /\ \A x \in Runs : rows[x].queuedAt => rows'[x].queuedAt
         /\ o.queuedAt /\ Exists(r) => rows'[r].queuedAt
<1>1. CASE ~Exists(r)
  BY <1>1 DEF UpdateRun, Exists, Moves
<1>2. CASE Exists(r)
  <2>1. rows[r] \in Row
    BY <1>2 DEF Exists, Row, Stored, Columns
  <2>2. rows' = [rows EXCEPT ![r] = UpdateWith(rows[r], o)]
    BY <1>2 DEF UpdateRun
  <2>3. /\ UpdateWith(rows[r], o) \in Row
        /\ rows[r].queuedAt => UpdateWith(rows[r], o).queuedAt
        /\ o.queuedAt => UpdateWith(rows[r], o).queuedAt
    BY <2>1, UpdateWithRow
  <2>4. Row \subseteq Stored
    BY DEF Row, Stored, Columns
  <2>5. rows[r].status \in Statuses /\ o.status \in Statuses \union {NoStatus}
    BY <2>1 DEF Row, Updates, Columns
  <2>6. UpdateWith(rows[r], o).status = MergeStatus(rows[r].status, o.status)
    BY DEF UpdateWith
  <2>7. Moves(rows[r].status, UpdateWith(rows[r], o).status)
    BY <2>5, <2>6, MergeStatusMoves DEF Moves
  <2>8. UpdateWith(rows[r], o).status \in Statuses
    BY <2>3 DEF Row, Columns
  <2> QED
    BY <1>2, <2>2, <2>3, <2>4, <2>7, <2>8 DEF Exists, Moves
<1> QED BY <1>1, <1>2

\* A status moves among the five only, so a saved run stays saved.
LEMMA MovesSaved ==
  ASSUME NEW s, NEW t, Moves(s, t)
  PROVE  s = Unsaved <=> t = Unsaved
BY DEF Moves, Statuses, Unsaved

\* A step that writes to the table with UpdateRun alone keeps the store.
LEMMA UpdateRunStore ==
  ASSUME StoreInv, NEW r \in Runs, NEW o \in Updates, UpdateRun(r, o),
         UNCHANGED <<body, queue, jobs, launched, old>>
  PROVE  StoreInv' /\ Grows /\ \A x \in Runs : Saved(x) <=> Saved(x)'
<1>1. rows \in [Runs -> Stored]
  BY DEF StoreInv, StoreTypeOK
<1>2. rows' \in [Runs -> Stored] /\ \A x \in Runs : Moves(rows[x].status, rows'[x].status)
  BY <1>1, UpdateRunRows
<1>3. \A x \in Runs : Saved(x) <=> Saved(x)'
  BY <1>2, MovesSaved DEF Saved
<1>4. StoreTypeOK'
  BY <1>2 DEF StoreInv, StoreTypeOK
<1>5. QueueInv' /\ JobInv' /\ Grows
  BY <1>3 DEF StoreInv, QueueInv, JobInv, Grows
<1> QED BY <1>3, <1>4, <1>5 DEF StoreInv

\* Sending a message for a saved run keeps the store.
LEMMA EnqueueStore ==
  ASSUME StoreInv, NEW r \in Runs, Saved(r), Enqueue(r),
         UNCHANGED <<rows, jobs, launched, old>>
  PROVE  StoreInv' /\ Grows /\ \A x \in Runs : Saved(x) <=> Saved(x)'
<1>1. PICK m \in Msgs : /\ queue[m] = "unsent"
                        /\ queue' = [queue EXCEPT ![m] = "visible"]
                        /\ body' = [body EXCEPT ![m] = r]
  <2> DEFINE n == CHOOSE m \in Unsent : TRUE
  <2>1. n \in Unsent
    BY DEF Enqueue
  <2> QED  BY <2>1 DEF Enqueue, Unsent
<1>2. StoreTypeOK'
  BY <1>1 DEF StoreInv, StoreTypeOK, MsgStates
<1>3. QueueInv'
  BY <1>1 DEF StoreInv, StoreTypeOK, QueueInv, Saved
<1>4. JobInv' /\ Grows /\ \A x \in Runs : Saved(x) <=> Saved(x)'
  BY <1>1 DEF StoreInv, StoreTypeOK, JobInv, Grows, Saved
<1> QED BY <1>2, <1>3, <1>4 DEF StoreInv

\* So does any step that leaves it alone.
LEMMA StoreStutters ==
  ASSUME StoreInv, UNCHANGED store
  PROVE  StoreInv' /\ Grows /\ \A x \in Runs : Saved(x) <=> Saved(x)'
BY DEF store, StoreInv, StoreTypeOK, QueueInv, JobInv, Grows, Saved

-----------------------------------------------------------------------------
(* One lemma per component: its steps keep its own invariant and grow the *)
(* store.                                                                  *)

\* The updates and rows the components make are of the types of the table.
LEMMA BlankUpdates ==
  /\ \A s \in Statuses, e \in BOOLEAN : Report(s, e) \in Updates
  /\ \A s \in Statuses : Blank(s) \in Row
  /\ \A s \in Statuses \union {NoStatus} : Blank(s) \in Updates
  /\ [Blank(NoStatus) EXCEPT !.queuedAt = TRUE] \in Updates
  /\ Row \subseteq Updates /\ Row \subseteq Stored
BY DEF Report, Blank, Updates, Row, Stored, Columns, SparkExtensions

\* A step of a request keeps the store and what requests have in hand.
LEMMA RequestsKeep ==
  ASSUME StoreInv, RequestTypeOK, RequestInv, Requests
  PROVE  StoreInv' /\ Grows /\ RequestTypeOK' /\ RequestInv'
<1>1. PICK r \in Runs : RequestStep(r)
  BY DEF Requests
<1>2. CASE SaveRun(r)
  <2>1. /\ rows' = [rows EXCEPT ![r] = NewRun(r)]
        /\ req[r] = "new" /\ req' = [req EXCEPT ![r] = "saved"] /\ reports' = reports
        /\ UNCHANGED <<body, queue, jobs, launched, old>>
    BY <1>2 DEF SaveRun, Progress
  <2>2. NewRun(r) \in Stored /\ NewRun(r).status # Unsaved
    BY DEF NewRun, Statuses, Blank, Unsaved, Stored, Columns, SparkExtensions
  <2>3. StoreTypeOK' /\ RequestTypeOK'
    BY <2>1, <2>2 DEF StoreInv, StoreTypeOK, RequestTypeOK, RequestStates
  <2>4. \A x \in Runs : Saved(x)' <=> x = r \/ Saved(x)
    BY <2>1, <2>2 DEF Saved, StoreInv, StoreTypeOK
  <2> QED
    BY <2>1, <2>3, <2>4
    DEF StoreInv, QueueInv, JobInv, RequestInv, RequestTypeOK, Grows
<1>3. CASE EnqueueRun(r)
  <2>1. Saved(r)
    BY <1>3 DEF EnqueueRun, RequestInv
  <2>2. StoreInv' /\ Grows /\ \A x \in Runs : Saved(x) <=> Saved(x)'
    BY <1>3, <2>1, EnqueueStore DEF EnqueueRun
  <2> QED
    BY <1>3, <2>1, <2>2 DEF EnqueueRun, Progress, RequestTypeOK, RequestInv, RequestStates
<1>4. CASE StampQueuedAt(r)
  <2>1. StoreInv' /\ Grows /\ \A x \in Runs : Saved(x) <=> Saved(x)'
    BY <1>4, UpdateRunStore, BlankUpdates DEF StampQueuedAt
  <2> QED
    BY <1>4, <2>1 DEF StampQueuedAt, Progress, RequestTypeOK, RequestInv, RequestStates
<1>5. CASE RequestFails(r)
  <2>1. StoreInv' /\ Grows /\ \A x \in Runs : Saved(x) <=> Saved(x)'
    BY <1>5, StoreStutters DEF RequestFails
  <2> QED
    BY <1>5, <2>1 DEF RequestFails, Progress, RequestTypeOK, RequestInv, RequestStates
<1>6. CASE UpdateStatus(r)
  <2>1. PICK s \in Statuses, e \in BOOLEAN : UpdateRun(r, Report(s, e))
    BY <1>6, RequestAssumption DEF UpdateStatus
  <2>2. StoreInv' /\ Grows /\ \A x \in Runs : Saved(x) <=> Saved(x)'
    BY <1>6, <2>1, UpdateRunStore, BlankUpdates DEF UpdateStatus
  <2> QED
    BY <1>6, <2>2 DEF UpdateStatus, RequestTypeOK, RequestInv
<1>7. CASE DeleteDefinition(r)
  <2>1. /\ rows' = [rows EXCEPT ![r] = Blank(Deleted)] /\ Exists(r)
        /\ UNCHANGED <<body, queue, jobs, launched, old, req, reports>>
    BY <1>7 DEF DeleteDefinition, requestVars
  <2>2. Blank(Deleted) \in Stored /\ Blank(Deleted).status # Unsaved /\ Saved(r)
    BY <2>1
    DEF Blank, Stored, Columns, SparkExtensions, Deleted, Unsaved, Saved, Exists, Statuses
  <2>3. StoreTypeOK'
    BY <2>1, <2>2 DEF StoreInv, StoreTypeOK
  <2>4. \A x \in Runs : Saved(x)' <=> Saved(x)
    BY <2>1, <2>2 DEF Saved, StoreInv, StoreTypeOK
  <2> QED
    BY <2>1, <2>3, <2>4
    DEF StoreInv, QueueInv, JobInv, RequestInv, RequestTypeOK, Grows
<1> QED
  BY <1>1, <1>2, <1>3, <1>4, <1>5, <1>6, <1>7 DEF RequestStep, CreateStep

\* A job created for a saved run keeps the store.
LEMMA CreateJobStore ==
  ASSUME StoreInv, NEW r \in Runs, Saved(r), CreateJob(r)
  PROVE  StoreInv' /\ Grows
BY DEF CreateJob, StoreInv, StoreTypeOK, QueueInv, JobInv, Grows, Saved, JobStates

\* The rows a submit worker makes of the one it loaded.
LEMMA RowWith ==
  ASSUME NEW run \in Row
  PROVE  /\ \A s \in Statuses : [run EXCEPT !.status = s] \in Row
         /\ \A s \in Statuses, f \in BOOLEAN :
              [run EXCEPT !.status = s, !.podName = @ \/ f] \in Row
         /\ \A s \in Statuses :
              [run EXCEPT !.status = s, !.exitCode = TRUE] \in Row
         /\ \A f \in BOOLEAN : [run EXCEPT !.podName = @ \/ f] \in Row
         /\ \A s \in Statuses, x \in SparkExtensions :
              [run EXCEPT !.status = s, !.spark = x] \in Row
BY DEF Row, Columns

\* A message in hand carries a saved run.
LEMMA RunOfSaved ==
  ASSUME StoreInv, SubmitTypeOK, SubmitInv, NEW w \in Submitters, sub[w].pc # "poll"
  PROVE  /\ sub[w] \in SubmitLocal /\ sub[w].msg \in Msgs
         /\ queue[sub[w].msg] # "unsent"
         /\ RunOf(w) \in Runs /\ Saved(RunOf(w))
BY DEF StoreInv, SubmitTypeOK, SubmitInv, SubmitLocal, QueueInv, RunOf

\* A worker that gives up its message holds none.
LEMMA PollAgainKeeps ==
  ASSUME SubmitTypeOK, SubmitInv, Grows, NEW w \in Submitters, PollAgain(w)
  PROVE  SubmitTypeOK' /\ SubmitInv'
<1>1. Polling \in SubmitLocal /\ Polling.pc = "poll" /\ Polling.msg = NoMsg
  BY BlankUpdates DEF Polling, SubmitLocal, SubmitStates, Statuses
<1>2. SubmitTypeOK'
  BY <1>1 DEF PollAgain, SubmitTypeOK
<1>3. \A v \in Submitters : sub'[v] = IF v = w THEN Polling ELSE sub[v]
  BY DEF PollAgain, SubmitTypeOK
<1>4. \A v \in Submitters : sub[v].msg \in Msgs \union {NoMsg}
  BY DEF SubmitTypeOK, SubmitLocal
<1>5. SubmitInv'
  BY <1>1, <1>3, <1>4 DEF SubmitInv, Grows
<1> QED BY <1>2, <1>5

\* A worker that goes on with its message holds it still.
LEMMA GotoKeeps ==
  ASSUME SubmitTypeOK, SubmitInv, Grows, NEW w \in Submitters, sub[w].pc # "poll",
         NEW pc \in SubmitStates \ {"poll"}, NEW run \in Row,
         sub' = [sub EXCEPT ![w].pc = pc, ![w].run = run]
  PROVE  SubmitTypeOK' /\ SubmitInv'
<1>1. sub[w] \in SubmitLocal
  BY DEF SubmitTypeOK
<1>2. [sub[w] EXCEPT !.pc = pc, !.run = run] \in SubmitLocal
  BY <1>1 DEF SubmitLocal
<1>3. SubmitTypeOK'
  BY <1>2 DEF SubmitTypeOK
<1>4. \A v \in Submitters :
        /\ sub'[v].msg = sub[v].msg /\ sub[v].msg \in Msgs \union {NoMsg}
        /\ sub'[v].pc = "poll" <=> sub[v].pc = "poll"
  BY <1>1 DEF SubmitTypeOK, SubmitLocal
<1>5. SubmitInv'
  BY <1>4 DEF SubmitInv, Grows
<1> QED BY <1>3, <1>5

\* A step that keeps the run in hand is one with the same run.
LEMMA GotoIsGotoWith ==
  ASSUME SubmitTypeOK, NEW w \in Submitters, NEW pc, Goto(w, pc)
  PROVE  GotoWith(w, pc, sub[w].run) /\ sub[w].run \in Row
BY DEF SubmitTypeOK, SubmitLocal, Goto, GotoWith

\* A step of a submit worker keeps the store, its message and its run.
LEMMA SubmitKeeps ==
  ASSUME StoreInv, SubmitTypeOK, SubmitInv, SubmitStep \/ EmrSubmitStep
  PROVE  StoreInv' /\ Grows /\ SubmitTypeOK' /\ SubmitInv'
<1>1. ASSUME NEW w \in Submitters, NEW m \in Msgs, ReceiveRun(w, m)
      PROVE  StoreInv' /\ Grows /\ SubmitTypeOK' /\ SubmitInv'
  <2> DEFINE held == [Polling EXCEPT !.pc = "load", !.msg = m]
  <2>1. held \in SubmitLocal /\ held.pc = "load" /\ held.msg = m
    BY BlankUpdates DEF Polling, SubmitLocal, SubmitStates, Statuses
  <2>2. sub' = [sub EXCEPT ![w] = held] /\ queue' = [queue EXCEPT ![m] = "hidden"]
    BY <1>1 DEF ReceiveRun
  <2>3. StoreInv' /\ Grows
    BY <1>1 DEF ReceiveRun, StoreInv, StoreTypeOK, QueueInv, JobInv, Grows, Saved, MsgStates
  <2>4. SubmitTypeOK'
    BY <2>1, <2>2 DEF SubmitTypeOK
  <2>5. queue'[m] # "unsent" /\ m # NoMsg
    BY <2>2, StoreAssumption DEF StoreInv, StoreTypeOK
  <2>6. \A v \in Submitters : /\ sub'[v] = IF v = w THEN held ELSE sub[v]
                              /\ sub[v].msg \in Msgs \union {NoMsg}
    BY <2>2 DEF SubmitTypeOK, SubmitLocal
  <2>7. SubmitInv'
    BY <2>1, <2>3, <2>5, <2>6 DEF SubmitInv, Grows
  <2> QED BY <2>3, <2>4, <2>7
<1>2. ASSUME NEW w \in Submitters, NEW pc \in SubmitStates \ {"poll"}, NEW run \in Row,
             sub[w].pc # "poll", GotoWith(w, pc, run), StoreInv', Grows
      PROVE  SubmitTypeOK' /\ SubmitInv'
  BY <1>2, GotoKeeps DEF GotoWith
<1>3. ASSUME NEW w \in Submitters, LoadQueued(w) \/ LoadOther(w) \/ NoExecutable(w)
      PROVE  StoreInv' /\ Grows /\ SubmitTypeOK' /\ SubmitInv'
  <2>1. sub[w].pc # "poll" /\ UNCHANGED store
    BY <1>3 DEF LoadQueued, LoadOther, NoExecutable
  <2>2. StoreInv' /\ Grows
    BY <2>1, StoreStutters
  <2>3. RunOf(w) \in Runs
    BY <2>1, RunOfSaved
  <2>4. CASE LoadQueued(w)
    <3>1. rows[RunOf(w)] \in Row
      BY <2>3, <2>4 DEF LoadQueued, StoreInv, StoreTypeOK, Stored, Row, Columns, Statuses
    <3> QED
      BY <1>2, <2>1, <2>2, <2>4, <3>1 DEF LoadQueued, SubmitStates
  <2>5. CASE LoadOther(w) \/ NoExecutable(w)
    <3>1. Goto(w, "ack")
      BY <2>5 DEF LoadOther, NoExecutable
    <3> QED
      BY <1>2, <2>1, <2>2, <3>1, GotoIsGotoWith DEF SubmitStates
  <2> QED BY <1>3, <2>4, <2>5
<1>4. ASSUME NEW w \in Submitters, Execute(w)
      PROVE  StoreInv' /\ Grows /\ SubmitTypeOK' /\ SubmitInv'
  <2>1. sub[w].pc = "execute"
    BY <1>4 DEF Execute, ExecuteRejected, ExecuteExists, ExecuteCreated, ExecutesEks
  <2>2. RunOf(w) \in Runs /\ Saved(RunOf(w)) /\ sub[w].run \in Row
    BY <2>1, RunOfSaved DEF SubmitLocal
  <2>3. StoreInv' /\ Grows
    BY <1>4, <2>2, StoreStutters, CreateJobStore
    DEF Execute, ExecuteRejected, ExecuteExists, ExecuteCreated
  <2>4. CASE ExecuteRejected(w)
    <3>1. [sub[w].run EXCEPT !.status = "STOPPED"] \in Row
      BY <2>2, RowWith DEF Statuses
    <3> QED
      BY <1>2, <2>1, <2>3, <2>4, <3>1 DEF ExecuteRejected, SubmitStates
  <2>5. CASE ExecuteExists(w)
    BY <1>2, <2>1, <2>3, <2>5, GotoIsGotoWith DEF ExecuteExists, SubmitStates
  <2>6. CASE ExecuteCreated(w)
    <3>1. sub[w].run.queuedAt \in BOOLEAN
      BY <2>2 DEF Row, Columns
    <3>2. PICK found \in BOOLEAN :
            GotoWith(w, "update", [sub[w].run EXCEPT !.status = "RUNNING",
                                                     !.podName = @ \/ found])
      BY <2>6, <3>1 DEF ExecuteCreated
    <3>3. [sub[w].run EXCEPT !.status = "RUNNING", !.podName = @ \/ found] \in Row
      BY <2>2, RowWith DEF Statuses
    <3> QED
      BY <1>2, <2>1, <2>3, <3>2, <3>3 DEF SubmitStates
  <2> QED BY <1>4, <2>4, <2>5, <2>6 DEF Execute
<1>5. ASSUME NEW w \in Submitters, ExecuteRetryable(w) \/ SubmitCrash(w) \/ Done(w)
      PROVE  StoreInv' /\ Grows /\ SubmitTypeOK' /\ SubmitInv'
  <2>1. sub[w].pc # "poll" /\ PollAgain(w)
    BY <1>5 DEF ExecuteRetryable, ExecutesEks, SubmitCrash, Done
  <2>2. RunOf(w) \in Runs /\ Saved(RunOf(w)) /\ sub[w].msg \in Msgs
    BY <2>1, RunOfSaved
  <2>3. Done(w) => StoreInv' /\ Grows
    <3>1. SUFFICES ASSUME Done(w) PROVE StoreInv' /\ Grows
      OBVIOUS
    <3>2. CASE UNCHANGED queue
      BY <3>1, <3>2, StoreStutters DEF Done, store
    <3>3. CASE queue' = [queue EXCEPT ![sub[w].msg] = "deleted"]
      <4>1. \A m \in Msgs : queue'[m] = IF m = sub[w].msg THEN "deleted" ELSE queue[m]
        BY <3>3 DEF StoreInv, StoreTypeOK
      <4>2. queue' \in [Msgs -> MsgStates] /\ UNCHANGED <<rows, body, jobs, launched, old>>
        BY <2>2, <3>1, <3>3 DEF Done, StoreInv, StoreTypeOK, MsgStates
      <4>3. queue[sub[w].msg] # "unsent"
        BY <2>1, RunOfSaved
      <4> QED
        BY <2>2, <4>1, <4>2, <4>3
        DEF StoreInv, StoreTypeOK, QueueInv, JobInv, Grows, Saved
    <3> QED BY <3>1, <3>2, <3>3 DEF Done
  <2>4. ExecuteRetryable(w) \/ SubmitCrash(w) => StoreInv' /\ Grows
    BY <2>2, StoreStutters, CreateJobStore DEF ExecuteRetryable, SubmitCrash
  <2>5. StoreInv' /\ Grows
    BY <1>5, <2>3, <2>4
  <2> QED BY <2>1, <2>5, PollAgainKeeps
<1>6. ASSUME NEW w \in Submitters, UpdateLaunched(w)
      PROVE  StoreInv' /\ Grows /\ SubmitTypeOK' /\ SubmitInv'
  <2>1. sub[w].pc # "poll" /\ Goto(w, "ack") /\ UNCHANGED <<body, queue, jobs, launched, old>>
    BY <1>6 DEF UpdateLaunched
  <2>2. RunOf(w) \in Runs /\ sub[w].run \in Updates
    BY <2>1, RunOfSaved, BlankUpdates DEF SubmitLocal
  <2>3. UpdateRun(RunOf(w), sub[w].run) \/ UNCHANGED rows
    BY <1>6 DEF UpdateLaunched
  <2>4. StoreInv' /\ Grows
    BY <2>1, <2>2, <2>3, UpdateRunStore, StoreStutters DEF store
  <2> QED
    BY <1>2, <2>1, <2>4, GotoIsGotoWith DEF SubmitStates
<1>7. ASSUME NEW m \in Msgs, VisibilityTimeout(m)
      PROVE  StoreInv' /\ Grows /\ SubmitTypeOK' /\ SubmitInv'
  <2>1. StoreInv' /\ Grows
    BY <1>7
    DEF VisibilityTimeout, StoreInv, StoreTypeOK, QueueInv, JobInv, Grows, Saved, MsgStates
  <2> QED
    BY <1>7, <2>1 DEF VisibilityTimeout, SubmitTypeOK, SubmitLocal, SubmitInv, Grows
<1>8. ASSUME NEW w \in Submitters, ExecuteSpark(w) \/ ExecuteSparkFails(w)
      PROVE  StoreInv' /\ Grows /\ SubmitTypeOK' /\ SubmitInv'
  <2>1. sub[w].pc = "execute"
    BY <1>8 DEF ExecuteSpark, ExecuteSparkFails, ExecutesEmr
  <2>2. RunOf(w) \in Runs /\ Saved(RunOf(w)) /\ sub[w].run \in Row
    BY <2>1, RunOfSaved DEF SubmitLocal
  <2>3. StoreInv' /\ Grows
    BY <1>8, <2>2, StoreStutters, CreateJobStore
    DEF ExecuteSpark, ExecuteSparkFails, StartJobRun
  <2>4. /\ [sub[w].run EXCEPT !.status = "QUEUED", !.spark = "saved"] \in Row
        /\ Stop(sub[w].run) \in Row
    BY <2>2, RowWith DEF Statuses, SparkExtensions, Stop
  <2>5. \E run \in Row : GotoWith(w, "update", run)
    BY <1>8, <2>4 DEF ExecuteSpark, ExecuteSparkFails
  <2> QED BY <1>2, <2>1, <2>3, <2>5 DEF SubmitStates
<1> QED
  BY <1>1, <1>3, <1>4, <1>5, <1>6, <1>7, <1>8 DEF SubmitStep, SubmitAdvances, EmrSubmitStep

\* A step of a retry worker keeps the store and its list of saved runs.
LEMMA RetryKeeps ==
  ASSUME StoreInv, RetryTypeOK, RetryInv, RetryStep
  PROVE  StoreInv' /\ Grows /\ RetryTypeOK' /\ RetryInv'
<1>1. PICK w \in Retriers : RetryAdvances(w) \/ RetryFails(w)
  BY DEF RetryStep
<1>2. /\ ret[w] \in RetryLocal
      /\ \A v \in Retriers : ret[v] \in RetryLocal
  BY DEF RetryTypeOK
<1>3. Listing \in RetryLocal /\ Listing.pc = "list" /\ Listing.run = NoRun /\ Listing.todo = {}
  BY DEF Listing, RetryLocal, RetryStates
\* It is enough to look at the new locals of w and at the store.
<1>4. ASSUME NEW l \in RetryLocal, ret' = [ret EXCEPT ![w] = l], StoreInv', Grows,
             l.pc = "enqueue" => l.run \in Runs,
             \A r \in Runs : r = l.run \/ r \in l.todo => Saved(r)
      PROVE  RetryTypeOK' /\ RetryInv'
  <2>1. RetryTypeOK'
    BY <1>4 DEF RetryTypeOK
  <2>2. \A v \in Retriers : ret'[v] = IF v = w THEN l ELSE ret[v]
    BY <1>4 DEF RetryTypeOK
  <2>3. RetryInv'
    BY <1>4, <2>2 DEF RetryInv, Grows
  <2> QED BY <2>1, <2>3
<1>5. CASE ListNeedsRetry(w)
  <2> DEFINE needy == {r \in Runs \ SparkRuns : rows[r].status = "NEEDS_RETRY"}
             l == [ret[w] EXCEPT !.pc = "update", !.todo = needy]
  <2>1. ret[w].pc = "list" /\ ret' = [ret EXCEPT ![w] = l] /\ UNCHANGED store
    BY <1>5 DEF ListNeedsRetry
  <2>2. l \in RetryLocal /\ l.pc = "update" /\ l.run = ret[w].run /\ l.todo = needy
    BY <1>2 DEF RetryLocal, RetryStates
  <2>3. \A r \in Runs : r \in needy => Saved(r)
    BY DEF Saved, Unsaved
  <2>4. \A r \in Runs : r = l.run \/ r \in l.todo => Saved(r)
    BY <2>2, <2>3 DEF RetryInv
  <2> HIDE DEF l, needy
  <2> QED BY <1>4, <2>1, <2>2, <2>4, StoreStutters
<1>6. CASE SetQueued(w)
  <2>1. PICK r \in ret[w].todo :
          /\ UpdateRun(r, Blank("QUEUED"))
          /\ ret' = [ret EXCEPT ![w] = [pc |-> "enqueue", todo |-> @.todo \ {r}, run |-> r]]
          /\ UNCHANGED <<body, queue, jobs, launched, old>>
    BY <1>6 DEF SetQueued
  <2> DEFINE l == [pc |-> "enqueue", todo |-> ret[w].todo \ {r}, run |-> r]
  <2>2. r \in Runs /\ ret[w].todo \subseteq Runs
    BY <1>2 DEF RetryLocal
  <2>3. StoreInv' /\ Grows
    BY <2>1, <2>2, UpdateRunStore, BlankUpdates DEF Statuses
  <2>4. l \in RetryLocal /\ \A x \in Runs : x = l.run \/ x \in l.todo => Saved(x)
    BY <2>2 DEF RetryLocal, RetryStates, RetryInv
  <2>5. ret' = [ret EXCEPT ![w] = l] /\ (l.pc = "enqueue" => l.run \in Runs)
    BY <2>1, <2>2
  <2> HIDE DEF l
  <2> QED BY <1>4, <2>1, <2>3, <2>4, <2>5
<1>7. CASE EnqueueAgain(w)
  <2>1. /\ ret[w].pc = "enqueue" /\ Enqueue(ret[w].run) /\ UNCHANGED <<rows, jobs, launched, old>>
        /\ ret[w].run \in Runs /\ Saved(ret[w].run)
    BY <1>7 DEF EnqueueAgain, RetryInv
  <2>2. StoreInv' /\ Grows
    BY <2>1, EnqueueStore
  <2> DEFINE l == IF ret[w].todo = {} THEN Listing
                  ELSE [ret[w] EXCEPT !.pc = "update", !.run = NoRun]
  <2>3. ret' = [ret EXCEPT ![w] = l]
    BY <1>7 DEF EnqueueAgain
  <2>4. /\ l \in RetryLocal /\ l.pc # "enqueue" /\ l.run = NoRun
        /\ l.todo \subseteq ret[w].todo
    BY <1>2, <1>3 DEF RetryLocal, RetryStates
  <2>5. \A r \in Runs : r = l.run \/ r \in l.todo => Saved(r)
    BY <2>4, StoreAssumption DEF RetryInv
  <2> HIDE DEF l
  <2> QED BY <1>4, <2>2, <2>3, <2>4, <2>5
<1>8. CASE RetryFails(w)
  <2>1. ret' = [ret EXCEPT ![w] = Listing] /\ StoreInv' /\ Grows
    BY <1>8, StoreStutters DEF RetryFails
  <2>2. \A r \in Runs : r # Listing.run /\ r \notin Listing.todo
    BY <1>3, StoreAssumption
  <2> QED BY <1>3, <1>4, <2>1, <2>2
<1>9. StoreInv' /\ Grows /\ RetryTypeOK' /\ RetryInv'
  BY <1>1, <1>5, <1>6, <1>7, <1>8 DEF RetryAdvances
<1> QED BY <1>9

\* Removing a job, or changing the state of one that exists, keeps the store.
LEMMA SetJobStore ==
  ASSUME StoreInv, NEW r \in Runs, NEW s \in JobStates,
         s = "absent" \/ jobs[r] # "absent",
         jobs' = [jobs EXCEPT ![r] = s], UNCHANGED <<rows, body, queue, launched, old>>
  PROVE  StoreInv' /\ Grows
BY DEF StoreInv, StoreTypeOK, QueueInv, JobInv, Grows, Saved

\* Cancelling a job that was started keeps the store.
LEMMA CancelJobStore ==
  ASSUME StoreInv, NEW r \in Runs, CancelJob(r), UNCHANGED <<rows, body, queue, launched, old>>
  PROVE  StoreInv' /\ Grows
<1> DEFINE s == IF Live(r) THEN "cancelled" ELSE jobs[r]
<1>1. jobs' = [jobs EXCEPT ![r] = s]
  BY DEF CancelJob
<1>2. s \in JobStates /\ (s = "absent" \/ jobs[r] # "absent")
  BY DEF StoreInv, StoreTypeOK, JobStates, Live
<1> HIDE DEF s
<1> QED BY <1>1, <1>2, SetJobStore

\* A step of a termination keeps the store and the run it loaded.
LEMMA TerminateKeeps ==
  ASSUME StoreInv, TerminateTypeOK, TerminateInv, TerminateStep \/ EmrTerminateStep
  PROVE  StoreInv' /\ Grows /\ TerminateTypeOK' /\ TerminateInv'
<1>1. PICK t \in Terminators :
        \/ TerminateAdvances(t) \/ TerminateFails(t) \/ CancelJobRun(t) \/ CancelRefused(t)
        \/ \E r \in Runs : LoadRun(t, r)
  BY DEF TerminateStep, EmrTerminateStep
<1>2. trm[t] \in TerminateLocal /\ (trm[t].pc # "idle" => trm[t].run \in Runs)
  BY DEF TerminateTypeOK, TerminateInv
<1>3. Unused \in TerminateLocal /\ Unused.pc = "idle"
  BY DEF Unused, TerminateLocal, TerminateStates, Statuses
<1>4. ASSUME NEW l \in TerminateLocal, trm' = [trm EXCEPT ![t] = l],
             l.pc # "idle" => l.run \in Runs
      PROVE  TerminateTypeOK' /\ TerminateInv'
  BY <1>4 DEF TerminateTypeOK, TerminateInv
<1>5. ASSUME NEW r \in Runs, LoadRun(t, r)
      PROVE  StoreInv' /\ Grows /\ TerminateTypeOK' /\ TerminateInv'
  <2> DEFINE l == [pc |-> "delete", run |-> r, status |-> rows[r].status,
                job |-> rows[r].spark = "saved"]
  <2>1. l \in TerminateLocal /\ l.run \in Runs
    BY <1>5 DEF LoadRun, Exists, TerminateLocal, TerminateStates
  <2>2. trm' = [trm EXCEPT ![t] = l] /\ UNCHANGED store
    BY <1>5 DEF LoadRun
  <2> HIDE DEF l
  <2> QED BY <1>4, <2>1, <2>2, StoreStutters
<1>6. CASE DeleteJob(t)
  <2>1. [trm[t] EXCEPT !.pc = "stop"] \in TerminateLocal /\ trm[t].run \in Runs
    BY <1>2, <1>6 DEF DeleteJob, DeletesEks, TerminateLocal, TerminateStates
  <2>2. trm' = [trm EXCEPT ![t] = [trm[t] EXCEPT !.pc = "stop"]]
    BY <1>2, <1>6 DEF DeleteJob
  <2>3. StoreInv' /\ Grows
    BY <1>6, <2>1, SetJobStore, StoreStutters DEF DeleteJob, store, JobStates
  <2>4. [trm[t] EXCEPT !.pc = "stop"].run \in Runs
    BY <1>2, <2>1 DEF TerminateLocal
  <2> QED BY <1>4, <2>1, <2>2, <2>3, <2>4
<1>7. CASE NoClient(t) \/ CancelRefused(t)
  <2> DEFINE l == IF trm[t].status = "QUEUED" THEN [trm[t] EXCEPT !.pc = "stop"] ELSE Unused
  <2>1. trm[t].run \in Runs /\ l \in TerminateLocal /\ (l.pc # "idle" => l.run = trm[t].run)
    BY <1>2, <1>3, <1>7
    DEF NoClient, DeletesEks, CancelRefused, CancelsEmr, TerminateLocal, TerminateStates
  <2>2. trm' = [trm EXCEPT ![t] = l] /\ UNCHANGED store
    BY <1>7 DEF NoClient, CancelRefused, TerminateError
  <2> HIDE DEF l
  <2> QED BY <1>4, <2>1, <2>2, StoreStutters
<1>8. CASE MarkStopped(t)
  <2>1. trm[t].run \in Runs /\ trm' = [trm EXCEPT ![t] = Unused]
    BY <1>2, <1>8 DEF MarkStopped
  <2>2. StoreInv' /\ Grows
    BY <1>8, <2>1, UpdateRunStore, BlankUpdates DEF MarkStopped, Statuses
  <2> QED BY <1>3, <1>4, <2>1, <2>2
<1>9. CASE TerminateFails(t)
  BY <1>3, <1>4, <1>9, StoreStutters DEF TerminateFails
<1>10. CASE CancelJobRun(t)
  <2>1. [trm[t] EXCEPT !.pc = "stop"] \in TerminateLocal /\ trm[t].run \in Runs
    BY <1>2, <1>10 DEF CancelJobRun, CancelsEmr, TerminateLocal, TerminateStates
  <2>2. trm' = [trm EXCEPT ![t] = [trm[t] EXCEPT !.pc = "stop"]]
    BY <1>2, <1>10 DEF CancelJobRun
  <2>3. StoreInv' /\ Grows
    BY <1>10, <2>1, CancelJobStore DEF CancelJobRun
  <2>4. [trm[t] EXCEPT !.pc = "stop"].run \in Runs
    BY <1>2, <2>1 DEF TerminateLocal
  <2> QED BY <1>4, <2>1, <2>2, <2>3, <2>4
<1>11. StoreInv' /\ Grows /\ TerminateTypeOK' /\ TerminateInv'
  BY <1>1, <1>5, <1>6, <1>7, <1>8, <1>9, <1>10 DEF TerminateAdvances
<1> QED BY <1>11

\* A poll makes a row of a row, whatever it sees of the job.
LEMMA FetchUpdateStatusRow ==
  ASSUME NEW run \in Row, NEW j \in JobStates, NEW pod \in BOOLEAN, NEW lag \in BOOLEAN
  PROVE  FetchUpdateStatus(run, j, pod, lag) \in Row
<1> DEFINE seen == [run EXCEPT !.podName = @ \/ pod]
<1>1. seen \in Row
  BY RowWith
<1>2. /\ [seen EXCEPT !.status = "RUNNING"] \in Row
      /\ [seen EXCEPT !.status = "STOPPED", !.exitCode = TRUE] \in Row
  BY <1>1, RowWith DEF Statuses
<1> HIDE DEF seen
<1>3. \A lagging \in BOOLEAN : AdaptJob(j, seen, lagging) \in Row
  BY <1>1, <1>2 DEF AdaptJob, Stop
<1>4. (pod /\ lag) \in BOOLEAN
  OBVIOUS
<1> QED BY <1>3, <1>4 DEF FetchUpdateStatus, seen

\* A step of a status worker, or of a delayed clean-up, keeps the store and
\* the polled row.
LEMMA StatusKeeps ==
  ASSUME StoreInv, StatusTypeOK, StatusInv, StatusStep \/ Cleanup
  PROVE  StoreInv' /\ Grows /\ StatusTypeOK' /\ StatusInv'
<1>1. NotPolling \in PollLocal /\ NotPolling.pc = "idle"
  BY BlankUpdates DEF NotPolling, PollLocal, PollStates, Statuses
\* It is enough to look at the new locals of one process.
<1>2. ASSUME NEW p \in Pollers, NEW l \in PollLocal, pol' = [pol EXCEPT ![p] = l],
             l.pc # "idle" => l.id \in Runs, cleanup' \in [Pollers -> SUBSET Runs]
      PROVE  StatusTypeOK' /\ StatusInv'
  BY <1>2 DEF StatusTypeOK, StatusInv
<1>3. ASSUME NEW p \in Pollers, pol[p].pc # "idle"
      PROVE  /\ pol[p] \in PollLocal /\ pol[p].id \in Runs /\ pol[p].run \in Row
             /\ \A s \in PollStates : [pol[p] EXCEPT !.pc = s] \in PollLocal
             /\ \A s \in PollStates, run \in Row :
                  [pol[p] EXCEPT !.pc = s, !.run = run] \in PollLocal
  <2>1. pol[p] \in PollLocal
    BY DEF StatusTypeOK
  <2> QED BY <1>3, <2>1 DEF PollLocal, StatusInv
<1>4. cleanup \in [Pollers -> SUBSET Runs]
  BY DEF StatusTypeOK
<1>5. ASSUME NEW p \in Pollers, NEW r \in Runs, ListAndLock(p, r)
      PROVE  StoreInv' /\ Grows /\ StatusTypeOK' /\ StatusInv'
  <2> DEFINE l == [pc |-> "reload", id |-> r, run |-> rows[r]]
  <2>1. rows[r] \in Row
    BY <1>5 DEF ListAndLock, ToPoll, StoreInv, StoreTypeOK, Stored, Row, Columns
  <2>2. l \in PollLocal /\ l.id \in Runs
    BY <2>1 DEF PollLocal, PollStates
  <2>3. pol' = [pol EXCEPT ![p] = l] /\ UNCHANGED <<store, cleanup>>
    BY <1>5 DEF ListAndLock
  <2> HIDE DEF l
  <2> QED BY <1>2, <1>4, <2>2, <2>3, StoreStutters
<1>6. ASSUME NEW p \in Pollers, Reload(p) \/ FetchNotFound(p) \/ FetchError(p) \/ SaveFails(p)
      PROVE  StoreInv' /\ Grows /\ StatusTypeOK' /\ StatusInv'
  <2>1. pol[p].pc # "idle" /\ UNCHANGED <<store, cleanup>>
    BY <1>6 DEF Reload, FetchNotFound, FetchError, SaveFails
  <2> DEFINE fetching == [pol[p] EXCEPT !.pc = "fetch"]
             stopping == [pol[p] EXCEPT !.pc = "save", !.run.status = "STOPPED"]
  <2>2. fetching \in PollLocal /\ fetching.id = pol[p].id
    BY <1>3, <2>1 DEF PollStates, PollLocal
  <2>3. [pol[p].run EXCEPT !.status = "STOPPED"] \in Row
    BY <1>3, <2>1, RowWith DEF Statuses
  <2>4. stopping \in PollLocal /\ stopping.id = pol[p].id
    <3> DEFINE halted == [pol[p].run EXCEPT !.status = "STOPPED"]
               local  == [pol[p] EXCEPT !.pc = "save", !.run = halted]
    <3>1. pol[p] \in PollLocal
      BY <1>3, <2>1
    <3>2. stopping = local
      BY <3>1 DEF PollLocal
    <3>3. halted \in Row /\ "save" \in PollStates
      BY <2>3 DEF PollStates
    <3>4. local \in PollLocal
      BY <1>3, <2>1, <3>3
    <3>5. local.id = pol[p].id
      BY <3>1 DEF PollLocal
    <3> HIDE DEF local, stopping
    <3> QED  BY <3>2, <3>4, <3>5
  <2>5. \E l \in {NotPolling, fetching, stopping} : pol' = [pol EXCEPT ![p] = l]
    BY <1>6 DEF Reload, FetchNotFound, FetchError, SaveFails, Return
  <2> HIDE DEF fetching, stopping
  <2> QED BY <1>1, <1>2, <1>3, <1>4, <2>1, <2>2, <2>4, <2>5, StoreStutters
<1>7. ASSUME NEW p \in Pollers, NEW lag \in BOOLEAN, FetchJob(p, lag)
      PROVE  StoreInv' /\ Grows /\ StatusTypeOK' /\ StatusInv'
  <2>1. pol[p].pc # "idle" /\ UNCHANGED store
    BY <1>7 DEF FetchJob
  <2>2. jobs[pol[p].id] \in JobStates
    BY <1>3, <2>1 DEF StoreInv, StoreTypeOK
  <2>3. PICK pod \in BOOLEAN, write \in BOOLEAN :
          Outcome(p, FetchUpdateStatus(pol[p].run, jobs[pol[p].id], pod, lag), write)
    BY <1>7 DEF FetchJob
  <2> DEFINE upd == FetchUpdateStatus(pol[p].run, jobs[pol[p].id], pod, lag)
             l == [pol[p] EXCEPT !.pc = "save", !.run = upd]
  <2>4. upd \in Row
    BY <1>3, <2>1, <2>2, FetchUpdateStatusRow
  <2> HIDE DEF upd
  <2>5. l \in PollLocal /\ l.id = pol[p].id
    BY <1>3, <2>1, <2>4 DEF PollLocal, PollStates
  <2>6. cleanup' \in [Pollers -> SUBSET Runs]
    BY <1>3, <1>4, <2>1, <2>3 DEF Outcome, upd
  <2>7. pol' = [pol EXCEPT ![p] = l] \/ pol' = [pol EXCEPT ![p] = NotPolling]
    BY <2>3 DEF Outcome, upd
  <2> HIDE DEF l
  <2> QED BY <1>1, <1>2, <1>3, <2>1, <2>5, <2>6, <2>7, StoreStutters
<1>8. ASSUME NEW p \in Pollers, SavePolled(p)
      PROVE  StoreInv' /\ Grows /\ StatusTypeOK' /\ StatusInv'
  <2>1. pol[p].pc # "idle" /\ UNCHANGED cleanup /\ pol' = [pol EXCEPT ![p] = NotPolling]
    BY <1>8 DEF SavePolled, Return
  <2>2. StoreInv' /\ Grows
    BY <1>3, <1>8, <2>1, UpdateRunStore, BlankUpdates DEF SavePolled
  <2> QED BY <1>1, <1>2, <1>4, <2>1, <2>2
<1>9. ASSUME NEW p \in Pollers, PollCrash(p)
      PROVE  StoreInv' /\ Grows /\ StatusTypeOK' /\ StatusInv'
  <2>1. /\ pol' = [pol EXCEPT ![p] = NotPolling] /\ UNCHANGED store
        /\ cleanup' \in [Pollers -> SUBSET Runs]
    BY <1>4, <1>9 DEF PollCrash, Return
  <2> QED BY <1>1, <1>2, <2>1, StoreStutters
<1>10. ASSUME NEW p \in Pollers, NEW r \in Runs, CleanupRun(p, r)
       PROVE  StoreInv' /\ Grows /\ StatusTypeOK' /\ StatusInv'
  <2>1. cleanup' \in [Pollers -> SUBSET Runs] /\ UNCHANGED pol
    BY <1>4, <1>10 DEF CleanupRun
  <2>2. StoreInv' /\ Grows
    BY <1>10, SetJobStore, StoreStutters DEF CleanupRun, JobStates, store
  <2> QED BY <2>1, <2>2 DEF StatusTypeOK, StatusInv
<1>11. StoreInv' /\ Grows /\ StatusTypeOK' /\ StatusInv'
  BY <1>5, <1>6, <1>7, <1>8, <1>9, <1>10
  DEF StatusStep, PollAdvances, Cleanup, TwoMinutesLater
<1> QED BY <1>11

\* A notification makes a row of a row.
LEMMA NotedRow ==
  ASSUME NEW run \in Row, NEW k
  PROVE  Noted(run, k) \in Row
<1>1. Stop(run) \in Row
  BY RowWith DEF Statuses, Stop
<1>2. \A t \in Statuses : [run EXCEPT !.status = t] \in Row
  BY RowWith
<1>3. [run EXCEPT !.podName = TRUE] \in Row /\ AddPodEvent(run) \in Row
  <2>1. \A n \in Nat : [run EXCEPT !.events = n] \in Row
    BY DEF Row, Columns
  <2>2. run.events \in Nat /\ [run EXCEPT !.podName = TRUE] \in Row
    BY DEF Row, Columns
  <2> DEFINE n == IF run.events < MaxPodEvents THEN run.events + 1 ELSE run.events
  <2>3. n \in Nat /\ AddPodEvent(run) = [run EXCEPT !.events = n]
    BY <2>2 DEF AddPodEvent
  <2> HIDE DEF n
  <2> QED BY <2>1, <2>2, <2>3
<1>4. "RUNNING" \in Statuses /\ "PENDING" \in Statuses
  BY DEF Statuses
<1> QED BY <1>1, <1>2, <1>3, <1>4, Zenon DEF Noted

\* A step of an events worker keeps the store and the notification in hand.
LEMMA EventsKeep ==
  ASSUME StoreInv, EventTypeOK, EventInv, EventStep
  PROVE  StoreInv' /\ Grows /\ EventTypeOK' /\ EventInv'
<1>1. Receiving \in EventLocal /\ Receiving.pc = "receive"
  BY BlankUpdates DEF Receiving, EventLocal, EventStates, Statuses
\* It is enough to look at the new locals of one worker.
<1>2. ASSUME NEW e \in EventWorkers, NEW l \in EventLocal, evt' = [evt EXCEPT ![e] = l],
             l.pc # "receive" => l.run \in Runs /\ l.kind \in News,
             news' \in [Runs \X News -> NewsStates]
      PROVE  EventTypeOK' /\ EventInv'
  BY <1>2 DEF EventTypeOK, EventInv
<1>3. ASSUME NEW e \in EventWorkers, evt[e].pc # "receive"
      PROVE  /\ evt[e].run \in Runs /\ evt[e].kind \in News /\ evt[e].row \in Row
             /\ \A pc \in EventStates :
                  LET l == [evt[e] EXCEPT !.pc = pc]
                  IN  l \in EventLocal /\ l.run = evt[e].run /\ l.kind = evt[e].kind
  <2>1. evt[e] \in EventLocal
    BY DEF EventTypeOK
  <2> QED BY <1>3, <2>1 DEF EventLocal, EventInv
<1>4. news \in [Runs \X News -> NewsStates]
  BY DEF EventTypeOK
<1>5. \A s \in NewsStates, r \in Runs, k \in News :
        [news EXCEPT ![<<r, k>>] = s] \in [Runs \X News -> NewsStates]
  BY <1>4
<1>6. {"visible", "hidden", "deleted", "lost"} \subseteq NewsStates
  BY DEF MsgStates, NewsStates
<1>7. ASSUME NEW e \in EventWorkers, NEW r \in Runs, NEW k \in News, Take(e, r, k)
      PROVE  StoreInv' /\ Grows /\ EventTypeOK' /\ EventInv'
  <2> DEFINE l == [pc |-> "save", run |-> r, kind |-> k, row |-> Noted(rows[r], k)]
  <2>1. rows[r] \in Row
    BY <1>7 DEF Take, Found, Exists, StoreInv, StoreTypeOK, Stored, Row, Columns
  <2>2. l \in EventLocal /\ l.run \in Runs /\ l.kind \in News
    BY <2>1, NotedRow DEF EventLocal, EventStates
  <2>3. evt' = [evt EXCEPT ![e] = l] /\ UNCHANGED store
    BY <1>7 DEF Take
  <2>4. news' \in [Runs \X News -> NewsStates]
    BY <1>5, <1>6, <1>7 DEF Take, Put
  <2> HIDE DEF l
  <2> QED BY <1>2, <2>2, <2>3, <2>4, StoreStutters
<1>8. ASSUME NEW r \in Runs, NEW k \in News, NEW s \in NewsStates,
             Put(<<r, k>>, s), UNCHANGED <<store, evt>>
      PROVE  StoreInv' /\ Grows /\ EventTypeOK' /\ EventInv'
  BY <1>5, <1>8, StoreStutters DEF Put, EventTypeOK, EventInv
<1>9. ASSUME NEW e \in EventWorkers, evt[e].pc # "receive",
             Receive(e) \/ \E pc \in EventStates : Then(e, pc),
             news' \in [Runs \X News -> NewsStates]
      PROVE  EventTypeOK' /\ EventInv'
  <2>1. CASE Receive(e)
    BY <1>1, <1>2, <1>9, <2>1 DEF Receive
  <2>2. ASSUME NEW pc \in EventStates, Then(e, pc)
        PROVE  EventTypeOK' /\ EventInv'
    <3> DEFINE l == [evt[e] EXCEPT !.pc = pc]
    <3>1. l \in EventLocal /\ l.run \in Runs /\ l.kind \in News
      BY <1>3, <1>9
    <3>2. evt' = [evt EXCEPT ![e] = l]
      BY <2>2 DEF Then
    <3> HIDE DEF l
    <3> QED BY <1>2, <1>9, <3>1, <3>2
  <2> QED BY <1>9, <2>1, <2>2
<1>10. ASSUME NEW e \in EventWorkers, SaveNoted(e)
       PROVE  StoreInv' /\ Grows /\ EventTypeOK' /\ EventInv'
  <2>1. evt[e].pc # "receive" /\ \E pc \in EventStates : Then(e, pc)
    BY <1>10 DEF SaveNoted, EventStates
  <2>2. evt[e].run \in Runs /\ evt[e].row \in Updates
    BY <1>3, <2>1, BlankUpdates
  <2>3. StoreInv' /\ Grows
    BY <1>10, <2>2, UpdateRunStore DEF SaveNoted
  <2> QED BY <1>4, <1>9, <1>10, <2>1, <2>3 DEF SaveNoted
<1>11. ASSUME NEW e \in EventWorkers, SaveNotedFails(e) \/ EventCrash(e)
       PROVE  StoreInv' /\ Grows /\ EventTypeOK' /\ EventInv'
  <2>1. /\ evt[e].pc # "receive" /\ UNCHANGED <<store, news>>
        /\ Receive(e) \/ \E pc \in EventStates : Then(e, pc)
    BY <1>11 DEF SaveNotedFails, EventCrash, EventStates
  <2> QED BY <1>4, <1>9, <2>1, StoreStutters
<1>12. ASSUME NEW e \in EventWorkers, CancelNoisy(e)
       PROVE  StoreInv' /\ Grows /\ EventTypeOK' /\ EventInv'
  <2>1. /\ evt[e].pc # "receive" /\ UNCHANGED <<rows, body, queue, launched, old, news>>
        /\ CancelJob(evt[e].run) \/ UNCHANGED jobs
        /\ \E pc \in EventStates : Then(e, pc)
    BY <1>12 DEF CancelNoisy, EventStates
  <2>2. StoreInv' /\ Grows
    BY <1>3, <2>1, CancelJobStore, StoreStutters DEF store
  <2> QED BY <1>4, <1>9, <2>1, <2>2
<1>13. ASSUME NEW e \in EventWorkers, DeleteNotice(e)
       PROVE  StoreInv' /\ Grows /\ EventTypeOK' /\ EventInv'
  <2>1. evt[e].pc # "receive" /\ Receive(e) /\ UNCHANGED store
    BY <1>13 DEF DeleteNotice
  <2>2. news' \in [Runs \X News -> NewsStates]
    BY <1>3, <1>4, <1>5, <1>6, <1>13, <2>1 DEF DeleteNotice, Put
  <2> QED BY <1>9, <2>1, <2>2, StoreStutters
<1>14. ASSUME NEW r \in Runs, NEW k \in News,
              \/ \E e \in EventWorkers : TakeUnknown(e, r, k) \/ LosePodEvent(e, r, k)
              \/ Redeliver(r, k) \/ Notify(r, k)
       PROVE  StoreInv' /\ Grows /\ EventTypeOK' /\ EventInv'
  <2>1. PICK s \in NewsStates : Put(<<r, k>>, s) /\ UNCHANGED <<store, evt>>
    BY <1>6, <1>14 DEF TakeUnknown, LosePodEvent, Redeliver, Notify
  <2> QED BY <1>8, <2>1
<1>15. StoreInv' /\ Grows /\ EventTypeOK' /\ EventInv'
  BY <1>7, <1>10, <1>11, <1>12, <1>13, <1>14 DEF EventStep, EventAdvances
<1> QED BY <1>15

\* A step of a cloudtrail worker keeps the store and the row in hand.
LEMMA TrailKeeps ==
  ASSUME StoreInv, TrailTypeOK, TrailInv, TrailStep
  PROVE  StoreInv' /\ Grows /\ TrailTypeOK' /\ TrailInv'
<1>1. Untracked \in TrailLocal /\ Untracked.pc = "load"
  BY BlankUpdates DEF Untracked, TrailLocal, TrailStates, Statuses
<1>2. ASSUME NEW c \in Trackers, NEW l \in TrailLocal, trl' = [trl EXCEPT ![c] = l],
             l.pc = "save" => l.run \in Runs
      PROVE  TrailTypeOK' /\ TrailInv'
  BY <1>2 DEF TrailTypeOK, TrailInv
<1>3. PICK c \in Trackers :
        SaveTracked(c) \/ TrailFails(c) \/ \E r \in Runs : LoadTracked(c, r)
  BY DEF TrailStep
<1>4. CASE SaveTracked(c)
  <2>1. trl[c].run \in Runs /\ trl[c].row \in Updates
    BY <1>4, BlankUpdates DEF SaveTracked, TrailTypeOK, TrailLocal, TrailInv
  <2>2. StoreInv' /\ Grows
    BY <1>4, <2>1, UpdateRunStore DEF SaveTracked
  <2> QED BY <1>1, <1>2, <1>4, <2>2 DEF SaveTracked
<1>5. CASE TrailFails(c)
  BY <1>1, <1>2, <1>5, StoreStutters DEF TrailFails
<1>6. ASSUME NEW r \in Runs, LoadTracked(c, r)
      PROVE  StoreInv' /\ Grows /\ TrailTypeOK' /\ TrailInv'
  <2> DEFINE l == [pc |-> "save", run |-> r, row |-> rows[r]]
  <2>1. rows[r] \in Row
    BY <1>6 DEF LoadTracked, Exists, StoreInv, StoreTypeOK, Stored, Row, Columns
  <2>2. l \in TrailLocal /\ l.run \in Runs
    BY <2>1 DEF TrailLocal, TrailStates
  <2>3. trl' = [trl EXCEPT ![c] = l] /\ UNCHANGED store
    BY <1>6 DEF LoadTracked
  <2> HIDE DEF l
  <2> QED BY <1>2, <2>2, <2>3, StoreStutters
<1> QED BY <1>3, <1>4, <1>5, <1>6

\* Kubernetes, EMR and the clock keep the store.
LEMMA EnvironmentKeeps ==
  ASSUME StoreInv, Environment
  PROVE  StoreInv' /\ Grows
<1>1. PICK r \in Runs : \/ JobStarts(r) \/ JobEnds(r) \/ SparkJobFails(r)
                       \/ HalfHour(r) \/ JobCollected(r)
  BY DEF Environment
<1>2. JobStarts(r) \/ JobEnds(r) \/ SparkJobFails(r) \/ JobCollected(r) => StoreInv' /\ Grows
  BY SetJobStore DEF JobStarts, JobEnds, SparkJobFails, JobCollected, Finished, SetJob, JobStates
<1>3. HalfHour(r) => StoreInv' /\ Grows
  BY DEF HalfHour, StoreInv, StoreTypeOK, QueueInv, JobInv, Grows, Saved
<1> QED BY <1>1, <1>2, <1>3

-----------------------------------------------------------------------------
(* The invariant of the whole. *)

Others ==
  \/ SubmitStep \/ EmrSubmitStep \/ RetryStep \/ TerminateStep \/ EmrTerminateStep
  \/ StatusStep \/ Cleanup \/ EventStep \/ TrailStep \/ Environment

\* No step but a request writes to the table other than by UpdateRun, and the
\* step that creates a job writes nothing.
Writes ==
  \/ UNCHANGED <<rows, launched>>
  \/ UNCHANGED launched /\ \E r \in Runs, o \in Updates : UpdateRun(r, o)
  \/ UNCHANGED rows /\ \E r \in Runs : Saved(r) /\ CreateJob(r)

\* Apart from requests, the table changes by one UpdateRun at a time, and only
\* a submit worker creates jobs.
LEMMA OthersWrite ==
  ASSUME IInv, Others
  PROVE  Writes
<1>1. ASSUME NEW w \in Submitters,
             SubmitAdvances(w) \/ ExecuteRetryable(w) \/ SubmitCrash(w)
      PROVE  Writes
  <2>1. sub[w].pc # "poll" =>
          RunOf(w) \in Runs /\ Saved(RunOf(w)) /\ sub[w].run \in Updates
    BY RunOfSaved, BlankUpdates DEF IInv, SubmitLocal
  <2>2. CASE UpdateLaunched(w)
    BY <2>1, <2>2 DEF UpdateLaunched, Writes
  <2>3. CASE ExecuteCreated(w) \/ ExecuteRetryable(w)
    <3>1. sub[w].pc # "poll" /\ (CreateJob(RunOf(w)) \/ UNCHANGED store)
      BY <2>3 DEF ExecuteCreated, ExecuteRetryable, ExecutesEks
    <3> QED BY <2>1, <3>1 DEF CreateJob, Writes, store
  <2>4. CASE \/ \E m \in Msgs : ReceiveRun(w, m)
             \/ LoadQueued(w) \/ LoadOther(w) \/ NoExecutable(w)
             \/ ExecuteRejected(w) \/ ExecuteExists(w) \/ Done(w) \/ SubmitCrash(w)
    BY <2>4 DEF ReceiveRun, LoadQueued, LoadOther, NoExecutable, ExecuteRejected,
                ExecuteExists, Done, SubmitCrash, Writes, store
  <2> QED BY <1>1, <2>2, <2>3, <2>4 DEF SubmitAdvances, Execute
<1>2. ASSUME NEW m \in Msgs, VisibilityTimeout(m)
      PROVE  Writes
  BY <1>2 DEF VisibilityTimeout, Writes
<1>3. ASSUME NEW w \in Retriers, RetryAdvances(w) \/ RetryFails(w)
      PROVE  Writes
  <2>1. ret[w].todo \subseteq Runs
    BY DEF IInv, RetryTypeOK, RetryLocal
  <2> QED
    BY <1>3, <2>1, BlankUpdates
    DEF RetryAdvances, RetryFails, ListNeedsRetry, SetQueued, EnqueueAgain, Writes,
        store, Statuses
<1>4. ASSUME NEW t \in Terminators,
             \/ TerminateAdvances(t) \/ TerminateFails(t) \/ \E r \in Runs : LoadRun(t, r)
             \/ CancelJobRun(t) \/ CancelRefused(t)
      PROVE  Writes
  <2>1. trm[t].pc # "idle" => trm[t].run \in Runs
    BY DEF IInv, TerminateInv
  <2>2. CASE MarkStopped(t)
    BY <2>1, <2>2, BlankUpdates DEF MarkStopped, Writes, Statuses
  <2>3. CASE ~MarkStopped(t)
    BY <1>4, <2>3
    DEF TerminateAdvances, TerminateFails, LoadRun, DeleteJob, NoClient, CancelJobRun,
        CancelRefused, TerminateError, Writes, store
  <2> QED BY <2>2, <2>3
<1>5. ASSUME NEW p \in Pollers,
             \/ PollAdvances(p) \/ FetchError(p) \/ SaveFails(p) \/ PollCrash(p)
             \/ \E r \in Runs : ListAndLock(p, r)
      PROVE  Writes
  <2>1. CASE SavePolled(p)
    <3>1. pol[p].id \in Runs /\ pol[p].run \in Updates
      BY <2>1, BlankUpdates DEF SavePolled, IInv, StatusTypeOK, PollLocal, StatusInv
    <3> QED BY <2>1, <3>1 DEF SavePolled, Writes
  <2>2. CASE ~SavePolled(p)
    BY <1>5, <2>2
    DEF PollAdvances, FetchError, SaveFails, PollCrash, ListAndLock, Reload,
        FetchNotFound, FetchJob, Writes, store
  <2> QED BY <2>1, <2>2
<1>6. ASSUME NEW p \in Pollers, NEW r \in Runs, CleanupRun(p, r)
      PROVE  Writes
  BY <1>6 DEF CleanupRun, Writes
<1>7. ASSUME NEW r \in Runs,
             \/ JobStarts(r) \/ JobEnds(r) \/ SparkJobFails(r)
             \/ HalfHour(r) \/ JobCollected(r)
      PROVE  Writes
  BY <1>7 DEF JobStarts, JobEnds, SparkJobFails, HalfHour, JobCollected, SetJob, Writes
<1>8. ASSUME NEW w \in Submitters, ExecuteSpark(w) \/ ExecuteSparkFails(w)
      PROVE  Writes
  <2>1. sub[w].pc # "poll" /\ (CreateJob(RunOf(w)) \/ UNCHANGED store)
    BY <1>8 DEF ExecuteSpark, ExecuteSparkFails, ExecutesEmr, StartJobRun
  <2>2. RunOf(w) \in Runs /\ Saved(RunOf(w))
    BY <2>1, RunOfSaved DEF IInv
  <2> QED BY <2>1, <2>2 DEF CreateJob, Writes, store
<1>9. ASSUME EventStep
      PROVE  Writes
  <2>1. CASE UNCHANGED <<rows, launched>>
    BY <2>1 DEF Writes
  <2>2. ASSUME NEW e \in EventWorkers, SaveNoted(e)
        PROVE  Writes
    <3>1. evt[e].pc # "receive" /\ evt[e] \in EventLocal
      BY <2>2 DEF SaveNoted, IInv, EventTypeOK
    <3>2. evt[e].run \in Runs /\ evt[e].row \in Updates
      BY <3>1, BlankUpdates DEF IInv, EventInv, EventLocal
    <3> QED BY <2>2, <3>2 DEF SaveNoted, Writes
  <2> QED
    BY <1>9, <2>1, <2>2
    DEF EventStep, EventAdvances, CancelNoisy, DeleteNotice, SaveNotedFails, EventCrash,
        Take, TakeUnknown, LosePodEvent, Redeliver, Notify, store
<1>10. ASSUME NEW c \in Trackers,
              SaveTracked(c) \/ TrailFails(c) \/ \E r \in Runs : LoadTracked(c, r)
       PROVE  Writes
  <2>1. CASE SaveTracked(c)
    <3>1. trl[c].run \in Runs /\ trl[c].row \in Updates
      BY <2>1, BlankUpdates DEF SaveTracked, IInv, TrailTypeOK, TrailLocal, TrailInv
    <3> QED BY <2>1, <3>1 DEF SaveTracked, Writes
  <2>2. CASE ~SaveTracked(c)
    BY <1>10, <2>2 DEF TrailFails, LoadTracked, Writes, store
  <2> QED BY <2>1, <2>2
<1> QED
  BY <1>1, <1>2, <1>3, <1>4, <1>5, <1>6, <1>7, <1>8, <1>9, <1>10
  DEF Others, SubmitStep, EmrSubmitStep, RetryStep, TerminateStep, EmrTerminateStep,
      StatusStep, Cleanup, TwoMinutesLater, TrailStep, Environment

\* Only the request that creates a run saves it.
LEMMA WritesSaved ==
  ASSUME IInv, Writes
  PROVE  \A r \in Runs : Saved(r)' <=> Saved(r)
<1>1. rows \in [Runs -> Stored]
  BY DEF IInv, StoreInv, StoreTypeOK
<1>2. CASE UNCHANGED rows
  BY <1>2 DEF Saved
<1>3. ASSUME NEW r \in Runs, NEW o \in Updates, UpdateRun(r, o)
      PROVE  \A x \in Runs : Saved(x)' <=> Saved(x)
  <2>1. \A x \in Runs : Moves(rows[x].status, rows'[x].status)
    BY <1>1, <1>3, UpdateRunRows
  <2> QED BY <2>1, MovesSaved DEF Saved
<1> QED BY <1>2, <1>3 DEF Writes

\* What a component relies on survives any step of the others.
LEMMA OthersStay ==
  ASSUME IInv, Grows
  PROVE  /\ (\A r \in Runs : Saved(r)' <=> Saved(r)) /\ UNCHANGED requestVars
              => RequestTypeOK' /\ RequestInv'
         /\ UNCHANGED sub => SubmitTypeOK' /\ SubmitInv'
         /\ UNCHANGED ret => RetryTypeOK' /\ RetryInv'
         /\ UNCHANGED trm => TerminateTypeOK' /\ TerminateInv'
         /\ UNCHANGED statusVars => StatusTypeOK' /\ StatusInv'
         /\ UNCHANGED eventVars => EventTypeOK' /\ EventInv'
         /\ UNCHANGED trl => TrailTypeOK' /\ TrailInv'
<1>1. UNCHANGED sub => SubmitTypeOK' /\ SubmitInv'
  <2>1. \A w \in Submitters : sub[w].msg \in Msgs \union {NoMsg}
    BY DEF IInv, SubmitTypeOK, SubmitLocal
  <2> QED BY <2>1 DEF IInv, SubmitTypeOK, SubmitInv, Grows
<1>2. UNCHANGED ret => RetryTypeOK' /\ RetryInv'
  BY DEF IInv, RetryTypeOK, RetryInv, Grows
<1>3. UNCHANGED trm => TerminateTypeOK' /\ TerminateInv'
  BY DEF IInv, TerminateTypeOK, TerminateInv
<1>4. UNCHANGED statusVars => StatusTypeOK' /\ StatusInv'
  BY DEF IInv, StatusTypeOK, StatusInv, statusVars
<1>5. (\A r \in Runs : Saved(r)' <=> Saved(r)) /\ UNCHANGED requestVars
        => RequestTypeOK' /\ RequestInv'
  BY DEF IInv, RequestTypeOK, RequestInv, requestVars
<1>6. UNCHANGED eventVars => EventTypeOK' /\ EventInv'
  BY DEF IInv, EventTypeOK, EventInv, eventVars
<1>7. UNCHANGED trl => TrailTypeOK' /\ TrailInv'
  BY DEF IInv, TrailTypeOK, TrailInv
<1> QED BY <1>1, <1>2, <1>3, <1>4, <1>5, <1>6, <1>7

\* The invariant holds when the program starts.
LEMMA IInvInit ==
  ASSUME Init
  PROVE  IInv
<1> USE DEF Init
<1>1. Blank(Unsaved) \in Stored /\ Blank(Unsaved).status = Unsaved
  BY DEF Blank, Stored, Columns, SparkExtensions
<1>2. StoreInv
  BY <1>1 DEF StoreInit, StoreInv, StoreTypeOK, QueueInv, JobInv, MsgStates, JobStates
<1>3. RequestTypeOK /\ RequestInv
  BY <1>1 DEF RequestInit, StoreInit, RequestTypeOK, RequestStates, RequestInv, Saved
<1>4. SubmitTypeOK /\ SubmitInv
  BY BlankUpdates
  DEF SubmitInit, SubmitTypeOK, SubmitInv, SubmitLocal, SubmitStates, Polling, Statuses
<1>5. RetryTypeOK /\ RetryInv
  BY StoreAssumption DEF RetryInit, RetryTypeOK, RetryInv, RetryLocal, RetryStates, Listing
<1>6. TerminateTypeOK /\ TerminateInv
  BY DEF TerminateInit, TerminateTypeOK, TerminateInv, TerminateLocal, TerminateStates,
         Unused, Statuses
<1>7. StatusTypeOK /\ StatusInv
  BY BlankUpdates
  DEF StatusInit, StatusTypeOK, StatusInv, PollLocal, PollStates, NotPolling, Statuses
<1>8. EventTypeOK /\ EventInv
  BY BlankUpdates
  DEF EventInit, EventTypeOK, EventInv, EventLocal, EventStates, Receiving, MsgStates, NewsStates,
      Statuses
<1>9. TrailTypeOK /\ TrailInv
  BY BlankUpdates
  DEF TrailInit, TrailTypeOK, TrailInv, TrailLocal, TrailStates, Untracked, Statuses
<1> QED BY <1>2, <1>3, <1>4, <1>5, <1>6, <1>7, <1>8, <1>9 DEF IInv

\* Every step keeps the invariant: the component that takes it by its own
\* lemma, the others by OthersStay.
LEMMA IInvNext ==
  ASSUME IInv, [Next]_vars
  PROVE  IInv'
<1>1. CASE Requests /\ OfRequests
  <2>1. StoreInv' /\ Grows /\ RequestTypeOK' /\ RequestInv'
    BY <1>1, RequestsKeep DEF IInv
  <2> QED BY <1>1, <2>1, OthersStay DEF OfRequests, IInv
<1>2. CASE (SubmitStep \/ EmrSubmitStep) /\ OfSubmit
  <2>1. StoreInv' /\ Grows /\ SubmitTypeOK' /\ SubmitInv'
    BY <1>2, SubmitKeeps DEF IInv
  <2>2. \A r \in Runs : Saved(r)' <=> Saved(r)
    BY <1>2, OthersWrite, WritesSaved DEF Others
  <2> QED BY <1>2, <2>1, <2>2, OthersStay DEF OfSubmit, IInv
<1>3. CASE RetryStep /\ OfRetry
  <2>1. StoreInv' /\ Grows /\ RetryTypeOK' /\ RetryInv'
    BY <1>3, RetryKeeps DEF IInv
  <2>2. \A r \in Runs : Saved(r)' <=> Saved(r)
    BY <1>3, OthersWrite, WritesSaved DEF Others
  <2> QED BY <1>3, <2>1, <2>2, OthersStay DEF OfRetry, IInv
<1>4. CASE (TerminateStep \/ EmrTerminateStep) /\ OfTerminate
  <2>1. StoreInv' /\ Grows /\ TerminateTypeOK' /\ TerminateInv'
    BY <1>4, TerminateKeeps DEF IInv
  <2>2. \A r \in Runs : Saved(r)' <=> Saved(r)
    BY <1>4, OthersWrite, WritesSaved DEF Others
  <2> QED BY <1>4, <2>1, <2>2, OthersStay DEF OfTerminate, IInv
<1>5. CASE (StatusStep \/ Cleanup) /\ OfStatus
  <2>1. StoreInv' /\ Grows /\ StatusTypeOK' /\ StatusInv'
    BY <1>5, StatusKeeps DEF IInv
  <2>2. \A r \in Runs : Saved(r)' <=> Saved(r)
    BY <1>5, OthersWrite, WritesSaved DEF Others
  <2> QED BY <1>5, <2>1, <2>2, OthersStay DEF OfStatus, IInv
<1>6. CASE Environment /\ OfEnvironment
  <2>1. StoreInv' /\ Grows
    BY <1>6, EnvironmentKeeps DEF IInv
  <2>2. \A r \in Runs : Saved(r)' <=> Saved(r)
    BY <1>6, OthersWrite, WritesSaved DEF Others
  <2> QED BY <1>6, <2>1, <2>2, OthersStay DEF OfEnvironment, IInv
<1>7. CASE UNCHANGED vars
  <2>1. StoreInv' /\ Grows /\ \A r \in Runs : Saved(r)' <=> Saved(r)
    BY <1>7, StoreStutters DEF vars, IInv
  <2> QED BY <1>7, <2>1, OthersStay DEF vars, IInv
<1>8. CASE EventStep /\ OfEvents
  <2>1. StoreInv' /\ Grows /\ EventTypeOK' /\ EventInv'
    BY <1>8, EventsKeep DEF IInv
  <2>2. \A r \in Runs : Saved(r)' <=> Saved(r)
    BY <1>8, OthersWrite, WritesSaved DEF Others
  <2> QED BY <1>8, <2>1, <2>2, OthersStay DEF OfEvents, IInv
<1>9. CASE TrailStep /\ OfTrail
  <2>1. StoreInv' /\ Grows /\ TrailTypeOK' /\ TrailInv'
    BY <1>9, TrailKeeps DEF IInv
  <2>2. \A r \in Runs : Saved(r)' <=> Saved(r)
    BY <1>9, OthersWrite, WritesSaved DEF Others
  <2> QED BY <1>9, <2>1, <2>2, OthersStay DEF OfTrail, IInv
<1> QED BY <1>1, <1>2, <1>3, <1>4, <1>5, <1>6, <1>7, <1>8, <1>9 DEF Next

\* The invariant itself.
THEOREM Invariance == Spec => []IInv
<1>1. Init => IInv
  BY IInvInit
<1>2. IInv /\ [Next]_vars => IInv'
  BY IInvNext
<1> QED BY <1>1, <1>2, PTL DEF Spec

\* Every variable keeps its type whatever fails and however workers interleave.
THEOREM TypeCorrect == Spec => []TypeOK
<1>1. IInv => TypeOK
  BY DEF IInv, StoreInv, TypeOK
<1> QED BY <1>1, Invariance, PTL

\* No message, worker or job ever refers to a run that was not saved, for any
\* number of runs, messages and workers and with every class of faults.
THEOREM NeverUnsaved == Spec => []SavedBeforeQueued
<1>1. ASSUME IInv PROVE SavedBeforeQueued
  <2>1. SUFFICES ASSUME NEW r \in Runs, rows[r].status = Unsaved
                 PROVE  /\ \A m \in Msgs : InFlight(m) => body[m] # r
                        /\ \A w \in Submitters : sub[w].msg # NoMsg => RunOf(w) # r
                        /\ \A w \in Retriers : ret[w].run # r /\ r \notin ret[w].todo
                        /\ jobs[r] = "absent"
    BY DEF SavedBeforeQueued
  <2>2. ~Saved(r)
    BY <2>1 DEF Saved
  <2>3. \A m \in Msgs : InFlight(m) => body[m] # r
    BY <1>1, <2>2 DEF IInv, StoreInv, QueueInv, InFlight
  <2>4. \A w \in Submitters : sub[w].msg # NoMsg => RunOf(w) # r
    BY <1>1, <2>2, RunOfSaved DEF IInv, SubmitInv
  <2>5. \A w \in Retriers : ret[w].run # r /\ r \notin ret[w].todo
    BY <1>1, <2>2 DEF IInv, RetryInv
  <2>6. jobs[r] = "absent"
    BY <1>1, <2>2 DEF IInv, StoreInv, JobInv
  <2> QED BY <2>3, <2>4, <2>5, <2>6
<1> QED BY <1>1, Invariance, PTL

-----------------------------------------------------------------------------
(* Every live run is watched, when no request stops half-way. *)

\* Stopped runs included: a retry makes them live again.
WatchedInv ==
  \A r \in Runs : Exists(r) => rows[r].queuedAt \/ req[r] \in {"saved", "enqueued"}

\* No step makes a run that is not over lose its queued_at, unless a request
\* is about to set it.
LEMMA WatchedStep ==
  ASSUME "request" \notin Faults, IInv, WatchedInv, [Next]_vars
  PROVE  WatchedInv'
<1>1. rows \in [Runs -> Stored] /\ req \in [Runs -> RequestStates]
  BY DEF IInv, StoreInv, StoreTypeOK, RequestTypeOK
<1>2. ASSUME NEW r \in Runs, NEW o \in Updates, UpdateRun(r, o), UNCHANGED req
      PROVE  WatchedInv'
  <2>1. \A x \in Runs : /\ Exists(x) <=> Exists(x)'
                        /\ rows[x].queuedAt => rows'[x].queuedAt
    BY <1>1, <1>2, UpdateRunRows
  <2> QED BY <1>2, <2>1 DEF WatchedInv
<1>3. CASE UNCHANGED <<rows, req>>
  BY <1>3 DEF WatchedInv, Exists
<1>4. CASE Requests /\ OfRequests
  <2>1. PICK r \in Runs : RequestStep(r)
    BY <1>4 DEF Requests
  <2>2. CASE SaveRun(r)
    <3>1. /\ \A x \in Runs \ {r} : rows'[x] = rows[x] /\ req'[x] = req[x]
          /\ req'[r] = "saved"
      BY <1>1, <2>2 DEF SaveRun, Progress
    <3> QED BY <3>1 DEF WatchedInv, Exists
  <2>3. CASE EnqueueRun(r)
    BY <1>1, <2>3 DEF EnqueueRun, Progress, WatchedInv, Exists
  <2>4. CASE StampQueuedAt(r)
    <3> DEFINE o == [Blank(NoStatus) EXCEPT !.queuedAt = TRUE]
    <3>1. o \in Updates /\ o.queuedAt /\ UpdateRun(r, o)
      BY <2>4, BlankUpdates DEF StampQueuedAt, Blank
    <3> HIDE DEF o
    <3>2. /\ \A x \in Runs : /\ Exists(x) <=> Exists(x)'
                             /\ rows[x].queuedAt => rows'[x].queuedAt
          /\ Exists(r) => rows'[r].queuedAt
      BY <1>1, <3>1, UpdateRunRows
    <3>3. \A x \in Runs \ {r} : req'[x] = req[x]
      BY <1>1, <2>4 DEF StampQueuedAt, Progress
    <3> QED BY <3>2, <3>3 DEF WatchedInv
  <2>5. CASE UpdateStatus(r)
    <3>1. PICK s \in Statuses, e \in BOOLEAN : UpdateRun(r, Report(s, e))
      BY <2>5, RequestAssumption DEF UpdateStatus
    <3> QED BY <1>2, <2>5, <3>1, BlankUpdates DEF UpdateStatus
  <2>6. CASE DeleteDefinition(r)
    <3>1. /\ \A x \in Runs \ {r} : rows'[x] = rows[x]
          /\ rows'[r].status = Deleted /\ req' = req
      BY <1>1, <2>6 DEF DeleteDefinition, Blank, requestVars
    <3>2. Deleted \notin Statuses
      BY DEF Deleted, Statuses
    <3> QED BY <3>1, <3>2 DEF WatchedInv, Exists
  <2> QED
    BY <2>1, <2>2, <2>3, <2>4, <2>5, <2>6 DEF RequestStep, CreateStep, RequestFails
<1>5. CASE Writes /\ UNCHANGED req
  BY <1>2, <1>3, <1>5 DEF Writes
<1>6. CASE Others /\ UNCHANGED requestVars
  BY <1>5, <1>6, OthersWrite DEF requestVars
<1>7. CASE UNCHANGED vars
  BY <1>3, <1>7 DEF vars, store, requestVars
<1> QED
  BY <1>4, <1>6, <1>7
  DEF Next, Others, OfSubmit, OfRetry, OfTerminate, OfStatus, OfEvents, OfTrail,
      OfEnvironment

\* Whatever else fails, crashes or is redelivered, a run that is not over is
\* one the status workers will list, if the request that created it got to its
\* last write: no writer of the row resets queued_at.
THEOREM AlwaysWatched ==
  ASSUME "request" \notin Faults
  PROVE  Spec => []Watched
<1>1. Init => WatchedInv
  BY DEF Init, StoreInit, WatchedInv, Exists, Blank, Unsaved, Statuses
<1>2. IInv /\ WatchedInv /\ [Next]_vars => WatchedInv'
  BY WatchedStep
<1>3. WatchedInv => Watched
  BY DEF WatchedInv, Watched, Exists
<1> QED BY <1>1, <1>2, <1>3, Invariance, PTL DEF Spec

-----------------------------------------------------------------------------
(* The implementation of RunContract. *)

\* A step of anything but a request is a step of RunContract.
LEMMA ContractWrites ==
  ASSUME IInv, Writes
  PROVE  [Contract!Next]_(Contract!vars)
<1>1. rows \in [Runs -> Stored]
  BY DEF IInv, StoreInv, StoreTypeOK
<1>2. CASE UNCHANGED <<rows, launched>>
  BY <1>2 DEF Contract!vars
<1>3. ASSUME NEW r \in Runs, NEW o \in Updates, UpdateRun(r, o), UNCHANGED launched
      PROVE  [Contract!Next]_(Contract!vars)
  <2>1. Moves(rows[r].status, rows'[r].status)
    BY <1>1, <1>3, UpdateRunRows
  <2>2. \A x \in Runs \ {r} : rows'[x] = rows[x]
    BY <1>1, <1>3 DEF UpdateRun
  <2> DEFINE status == [x \in Runs |-> rows[x].status]
  <2>3. status' = [status EXCEPT ![r] = rows'[r].status]
    BY <2>2
  <2>4. ASSUME NEW s, s = rows'[r].status
        PROVE  Contract!Become(r, s)
    BY <1>3, <2>3, <2>4 DEF Contract!Become
  <2>5. CASE rows'[r].status = rows[r].status
    BY <1>3, <2>3, <2>5 DEF Contract!vars
  <2>6. CASE rows[r].status \in Statuses /\ rows'[r].status = "NEEDS_RETRY"
    <3>1. Contract!Become(r, "NEEDS_RETRY")
      BY <2>4, <2>6
    <3>2. Contract!Retry(r)
      BY <2>6, <3>1 DEF Contract!Retry, Contract!Statuses, Statuses
    <3> QED BY <3>2 DEF Contract!Next
  <2>7. CASE /\ rows[r].status \in Statuses /\ rows'[r].status \in Statuses
             /\ Precedence[rows'[r].status] > Precedence[rows[r].status]
    <3>1. Contract!Statuses = Statuses /\ Contract!Precedence = Precedence
      BY DEF Contract!Statuses, Statuses, Contract!Precedence, Precedence
    <3>2. PICK s \in Statuses : s = rows'[r].status
      BY <2>7
    <3>3. Contract!Become(r, s)
      BY <2>4, <3>2
    <3>4. rows[r].status \in Statuses /\ Precedence[s] > Precedence[rows[r].status]
      BY <2>7, <3>2
    <3>5. Contract!Advance(r)
      BY <3>1, <3>3, <3>4 DEF Contract!Advance
    <3> QED BY <3>5 DEF Contract!Next
  <2> QED BY <2>1, <2>5, <2>6, <2>7 DEF Moves
<1>4. ASSUME NEW r \in Runs, Saved(r), CreateJob(r), UNCHANGED rows
      PROVE  [Contract!Next]_(Contract!vars)
  <2>1. launched \in [Runs -> Nat]
    BY DEF IInv, StoreInv, StoreTypeOK
  <2>2. \A x \in Runs : launched'[x] > 0 <=> x = r \/ launched[x] > 0
    BY <1>4, <2>1 DEF CreateJob
  <2>3. {x \in Runs : launched'[x] > 0} = {x \in Runs : launched[x] > 0} \union {r}
    BY <2>2
  <2>4. Contract!Start(r)
    BY <1>4, <2>3 DEF Contract!Start, Saved, Contract!Unsaved, Unsaved
  <2> QED BY <2>4 DEF Contract!Next
<1> QED BY <1>2, <1>3, <1>4 DEF Writes

\* A step of a request is a step of RunContract.
LEMMA ContractRequests ==
  ASSUME IInv, Requests
  PROVE  [Contract!Next]_(Contract!vars)
<1>1. PICK r \in Runs : RequestStep(r)
  BY DEF Requests
<1>2. rows \in [Runs -> Stored]
  BY DEF IInv, StoreInv, StoreTypeOK
<1> DEFINE status == [x \in Runs |-> rows[x].status]
<1>3. ASSUME NEW s, NEW row, rows' = [rows EXCEPT ![r] = row], row.status = s,
             UNCHANGED launched
      PROVE  Contract!Become(r, s)
  <2>1. status' = [status EXCEPT ![r] = s]
    BY <1>2, <1>3
  <2> QED BY <1>3, <2>1 DEF Contract!Become
<1>4. CASE SaveRun(r)
  <2>1. rows[r].status = Unsaved
    BY <1>4 DEF SaveRun, IInv, RequestInv, Saved
  <2>2. NewRun(r).status = "QUEUED"
    BY DEF NewRun, Blank
  <2>3. Contract!Become(r, "QUEUED")
    BY <1>3, <1>4, <2>2 DEF SaveRun
  <2>4. Contract!Create(r)
    BY <2>1, <2>3 DEF Contract!Create, Contract!Unsaved, Unsaved
  <2> QED BY <2>4 DEF Contract!Next
<1>5. CASE DeleteDefinition(r)
  <2>0. Blank(Deleted).status = Deleted
    BY DEF Blank
  <2>1. Contract!Become(r, Deleted)
    BY <1>3, <1>5, <2>0 DEF DeleteDefinition
  <2>2. Contract!Drop(r)
    BY <1>5, <2>1
    DEF DeleteDefinition, Exists, Contract!Drop, Contract!Statuses, Statuses,
        Contract!Deleted, Deleted
  <2> QED BY <2>2 DEF Contract!Next
<1>6. CASE ~SaveRun(r) /\ ~DeleteDefinition(r)
  <2>1. ReportStatuses \subseteq Statuses
    BY RequestAssumption
  <2>2. Writes
    BY <1>1, <1>6, <2>1, BlankUpdates
    DEF RequestStep, CreateStep, EnqueueRun, StampQueuedAt, RequestFails, UpdateStatus,
        store, Writes
  <2> QED BY <2>2, ContractWrites
<1> QED BY <1>1, <1>4, <1>5, <1>6

\* All the workers, the queue, the table and the cluster together do nothing
\* to the status of a run, nor to the set of runs that were executed, that
\* RunContract does not allow.
THEOREM KeepsContract == Spec => ImplementsContract
<1>1. Init => Contract!Init
  <2>1. SUFFICES ASSUME Init PROVE Contract!Init
    OBVIOUS
  <2>2. \A r \in Runs : rows[r].status = Contract!Unsaved /\ ~(launched[r] > 0)
    BY <2>1 DEF Init, StoreInit, Blank, Unsaved, Contract!Unsaved
  <2> QED BY <2>2 DEF Contract!Init
<1>2. IInv /\ [Next]_vars => [Contract!Next]_(Contract!vars)
  <2>1. SUFFICES ASSUME IInv, [Next]_vars PROVE [Contract!Next]_(Contract!vars)
    OBVIOUS
  <2>2. CASE Requests
    BY <2>1, <2>2, ContractRequests
  <2>3. CASE Others
    BY <2>1, <2>3, OthersWrite, ContractWrites
  <2>4. CASE UNCHANGED vars
    BY <2>4 DEF vars, store, Contract!vars
  <2> QED BY <2>1, <2>2, <2>3, <2>4 DEF Next, Others
<1> QED BY <1>1, <1>2, Invariance, PTL DEF Spec, ImplementsContract, Contract!Spec
=============================================================================
