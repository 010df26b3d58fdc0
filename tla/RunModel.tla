------------------------------ MODULE RunModel ------------------------------
(***************************************************************************)
(* The `task' row of a run, and Run.UpdateWith, the merge every writer of  *)
(* a run goes through (state/models.go).  A row is kept as the status and  *)
(* the columns that steer the workers: whether exit_code, queued_at and    *)
(* pod_name are set, whether spark_extension is null, lacks the id of the  *)
(* EMR job or holds it, and how many pod events of an EMR job are listed   *)
(* (0 is null; pod events of EKS runs steer nothing and are left out).     *)
(***************************************************************************)
EXTENDS Integers

Statuses == {"NEEDS_RETRY", "QUEUED", "PENDING", "RUNNING", "STOPPED"}

NoStatus == ""            \* the zero value of Run.Status in a partial update
Unsaved  == "unsaved"     \* no INSERT of the row has been made
Deleted  == "deleted"     \* the row was removed with its definition

SparkExtensions == {"nil", "new", "saved"}

Columns(S) ==
  [status : S, exitCode : BOOLEAN, queuedAt : BOOLEAN, podName : BOOLEAN,
   spark : SparkExtensions, events : Nat]

Row      == Columns(Statuses)                       \* a run loaded from the table
Stored   == Columns(Statuses \union {Unsaved, Deleted})
Updates  == Columns(Statuses \union {NoStatus})     \* the argument of UpdateRun

Blank(s) ==
  [status |-> s, exitCode |-> FALSE, queuedAt |-> FALSE, podName |-> FALSE,
   spark |-> "nil", events |-> 0]

\* An update that carries a status and, when e holds, an exit code.
Report(s, e) == [Blank(s) EXCEPT !.exitCode = e]

\* What the workers make of the row of a run that ended.
Stop(run) == [run EXCEPT !.status = "STOPPED", !.exitCode = TRUE]

Precedence ==
  [NEEDS_RETRY |-> -1, QUEUED |-> 0, PENDING |-> 1, RUNNING |-> 2, STOPPED |-> 3]

\* Bugs: taking the new status as it comes, the empty one included or not.
CopyStatus(old, new) == new
AssignStatus(old, new) == IF new = NoStatus THEN old ELSE new

\* NEEDS_RETRY wins always, any other status only over a lower one.
MergeStatus(old, new) ==
  IF \/ new = "NEEDS_RETRY"
     \/ new \in Statuses /\ Precedence[new] > Precedence[old]
  THEN new
  ELSE old

\* A bug: copying the columns of the update, null or not.
OverwriteColumns(d, o) == [o EXCEPT !.status = MergeStatus(d.status, o.status)]

\* A column is overwritten by a non-null value, a structure as a whole, and
\* never reset to null.
UpdateWith(d, o) ==
  [status   |-> MergeStatus(d.status, o.status),
   exitCode |-> d.exitCode \/ o.exitCode,
   queuedAt |-> d.queuedAt \/ o.queuedAt,
   podName  |-> d.podName \/ o.podName,
   spark    |-> IF o.spark = "nil" THEN d.spark ELSE o.spark,
   events   |-> IF o.events = 0 THEN d.events ELSE o.events]
=============================================================================
