----------------------------- MODULE TrailWorker -----------------------------
(***************************************************************************)
(* The cloudtrail workers (worker/cloudtrail_worker.go).  A worker is told *)
(* of a file with records of the calls jobs made, in sessions named after  *)
(* their runs; it loads each of these runs, adds the records to it and     *)
(* writes the whole row back.  The message was deleted as it was received  *)
(* (queue/sqs_manager.go, ReceiveCloudTrail): nothing is done twice, and   *)
(* what fails is lost.  No step of any worker depends on the records, so   *)
(* they are left out: what is kept is a writer of rows read some time ago. *)
(***************************************************************************)
EXTENDS FlotillaStore

CONSTANT Trackers

VARIABLE trl  \* per worker: its next call, the run and the row in hand

TrailStates == {"load", "save"}

TrailLocal == [pc : TrailStates, run : Runs \union {NoRun}, row : Row]

TrailTypeOK == trl \in [Trackers -> TrailLocal]

Untracked == [pc |-> "load", run |-> NoRun, row |-> Blank("QUEUED")]

TrailInit == trl = [c \in Trackers |-> Untracked]

\* GetRun of the name of the session, once a job with it has been created; a
\* run that is not found is passed over.
LoadTracked(c, r) ==
  /\ trl[c].pc = "load"
  /\ launched[r] > 0 /\ Exists(r)
  /\ trl' = [trl EXCEPT ![c] = [pc |-> "save", run |-> r, row |-> rows[r]]]
  /\ UNCHANGED store

\* UpdateRun with the run as it was loaded, and the records.
SaveTracked(c) ==
  /\ trl[c].pc = "save"
  /\ UpdateRun(trl[c].run, trl[c].row)
  /\ trl' = [trl EXCEPT ![c] = Untracked]
  /\ UNCHANGED <<body, queue, jobs, launched, old>>

\* The update returns an error, which is logged, or the process dies.
TrailFails(c) ==
  /\ trl[c].pc = "save" /\ Faults \intersect {"db", "crash"} # {}
  /\ trl' = [trl EXCEPT ![c] = Untracked]
  /\ UNCHANGED store

TrailStep ==
  \E c \in Trackers :
    \/ SaveTracked(c) \/ TrailFails(c)
    \/ \E r \in Runs : LoadTracked(c, r)
=============================================================================
