----------------------------- MODULE RunContract -----------------------------
(***************************************************************************)
(* What flotilla promises a client about its runs, whatever the workers    *)
(* do: a status only moves up the precedence of Run.UpdateWith, one write  *)
(* at a time, or falls back to NEEDS_RETRY; a run is executed only after   *)
(* it was saved; a deleted run never returns.                              *)
(***************************************************************************)
EXTENDS RunModel

CONSTANT Runs

VARIABLES
  status,  \* what GET /history/{run_id} shows
  started  \* the runs some job was created for

vars == <<status, started>>

Init ==
  /\ status = [r \in Runs |-> Unsaved]
  /\ started = {}

Become(r, s) == status' = [status EXCEPT ![r] = s] /\ UNCHANGED started

Create(r) == status[r] = Unsaved /\ Become(r, "QUEUED")

Advance(r) ==
  /\ status[r] \in Statuses
  /\ \E s \in Statuses : Precedence[s] > Precedence[status[r]] /\ Become(r, s)

Retry(r) == status[r] \in Statuses /\ Become(r, "NEEDS_RETRY")

Drop(r) == status[r] \in Statuses /\ Become(r, Deleted)

Start(r) ==
  /\ status[r] # Unsaved
  /\ started' = started \union {r}
  /\ UNCHANGED status

Next == \E r \in Runs : Create(r) \/ Advance(r) \/ Retry(r) \/ Drop(r) \/ Start(r)

Spec == Init /\ [][Next]_vars
=============================================================================
