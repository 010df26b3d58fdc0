-------------------------- MODULE TerminateChannel --------------------------
(***************************************************************************)
(* The channel terminations go through (services/execution.go, Terminate   *)
(* and terminateWorker).  Whoever puts a run into it, a request or a       *)
(* goroutine that terminates the run's parent, then starts the goroutine   *)
(* that is to take one run out: any of those waiting may get it.           *)
(***************************************************************************)
EXTENDS FiniteSets, Integers, Sequences

CONSTANTS
  Runs, NoRun,
  Parent,      \* the PARENT_FLOTILLA_RUN_ID of each run, or NoRun
  Capacity,    \* the channel's, 100 in the code
  Handlers,    \* the requests served at once, at most
  Workers,     \* the goroutines with a run in hand at once, at most
  MaxRequests, \* bound on the requests
  MaxErrors    \* bound on calls that fail and processes that die

ASSUME ChannelAssumption ==
  /\ NoRun \notin Runs /\ Parent \in [Runs -> Runs \union {NoRun}]
  /\ Capacity \in Nat \ {0}
  /\ IsFiniteSet(Handlers) /\ IsFiniteSet(Workers)
  /\ MaxRequests \in Nat /\ MaxErrors \in Nat

VARIABLES
  saved,     \* the runs that exist
  stopped,   \* those that are over
  expected,  \* those a client who asked for a termination counts on
  chan,      \* terminateJobChannel
  handler,   \* the requests: "idle" or, after the push, "spawn"
  waiting,   \* how many goroutines wait for the channel
  wkr,       \* the goroutines with a run in hand
  requests, errors

table == <<saved, stopped>>
vars == <<table, expected, chan, handler, waiting, wkr, requests, errors>>

None == [pc |-> "none", run |-> NoRun, subs |-> {}]
Busy == [pc : {"read", "push", "spawn", "stop"}, run : Runs, subs : SUBSET Runs]

TypeOK ==
  /\ saved \subseteq Runs /\ stopped \subseteq Runs /\ expected \subseteq Runs
  /\ chan \in Seq(Runs) /\ Len(chan) <= Capacity
  /\ handler \in [Handlers -> {"idle", "spawn"}]
  /\ waiting \in Nat
  /\ wkr \in [Workers -> Busy \union {None}]
  /\ requests \in 0..MaxRequests /\ errors \in 0..MaxErrors

Init ==
  /\ saved = {r \in Runs : Parent[r] = NoRun}
  /\ stopped = {} /\ expected = {}
  /\ chan = <<>>
  /\ handler = [h \in Handlers |-> "idle"]
  /\ waiting = 0
  /\ wkr = [w \in Workers |-> None]
  /\ requests = 0 /\ errors = 0

SubRuns(r) == {s \in saved : Parent[s] = r}

\* A run, its parent, its parent's parent and so on, up to n generations.
Line[n \in Nat] ==
  [r \in Runs |-> IF n = 0 THEN {r}
                  ELSE Line[n - 1][r] \union {Parent[p] : p \in Line[n - 1][r] \ {NoRun}}]

Tree(r) == {s \in saved : r \in Line[Cardinality(Runs)][s]}

\* The clients' side: a run starts sub-runs as long as it goes on.
CreateSubRun(r) ==
  /\ r \in Runs \ saved /\ Parent[r] \in saved \ stopped
  /\ saved' = saved \union {r}
  /\ UNCHANGED <<stopped, expected, chan, handler, waiting, wkr, requests, errors>>

RunEnds(r) ==
  /\ r \in saved \ stopped
  /\ stopped' = stopped \union {r}
  /\ UNCHANGED <<saved, expected, chan, handler, waiting, wkr, requests, errors>>

\* Terminate pushes, which blocks while the channel is full, ...
Push(r) == Len(chan) < Capacity /\ chan' = Append(chan, r)

RequestTermination(h, r) ==
  /\ handler[h] = "idle" /\ r \in saved /\ requests < MaxRequests
  /\ requests' = requests + 1
  /\ Push(r)
  /\ expected' = expected \union Tree(r)
  /\ handler' = [handler EXCEPT ![h] = "spawn"]
  /\ UNCHANGED <<table, waiting, wkr, errors>>

\* ... and starts a goroutine.
SpawnForRequest(h) ==
  /\ handler[h] = "spawn"
  /\ waiting' = waiting + 1
  /\ handler' = [handler EXCEPT ![h] = "idle"]
  /\ UNCHANGED <<table, expected, chan, wkr, requests, errors>>

\* A goroutine takes a run and leaves the channel for good.
Receive(w) ==
  /\ wkr[w].pc = "none" /\ waiting > 0 /\ chan # <<>>
  /\ waiting' = waiting - 1
  /\ chan' = Tail(chan)
  /\ wkr' = [wkr EXCEPT ![w] = [pc |-> "read", run |-> Head(chan), subs |-> {}]]
  /\ UNCHANGED <<table, expected, handler, requests, errors>>

\* A goroutine goes on with its run and the sub-runs it has yet to push.
Goto(w, pc, subs) ==
  wkr' = [wkr EXCEPT ![w] = [pc |-> pc, run |-> @.run, subs |-> subs]]

PushOrStop(subs) == IF subs = {} THEN "stop" ELSE "push"

\* A bug: only the sub-runs of a run that is not over are looked for.
ListOfRunning(w) ==
  /\ wkr[w].pc = "read"
  /\ LET subs == IF wkr[w].run \in stopped THEN {} ELSE SubRuns(wkr[w].run)
     IN  Goto(w, PushOrStop(subs), subs)
  /\ UNCHANGED <<table, expected, chan, handler, waiting, requests, errors>>

\* GetRun and ListRuns: the sub-runs whatever their status, and those of a
\* stopped run too.
ListSubRuns(w) ==
  /\ wkr[w].pc = "read"
  /\ LET subs == SubRuns(wkr[w].run)
     IN  Goto(w, PushOrStop(subs), subs)
  /\ UNCHANGED <<table, expected, chan, handler, waiting, requests, errors>>

\* A bug: one goroutine for all the sub-runs, started once all are pushed.
PushAllFirst(w) ==
  /\ wkr[w].pc = "push"
  /\ \E s \in wkr[w].subs :
       /\ Push(s)
       /\ Goto(w, IF wkr[w].subs = {s} THEN "spawn" ELSE "push", wkr[w].subs \ {s})
  /\ UNCHANGED <<table, expected, handler, waiting, requests, errors>>

PushSubRun(w) ==
  /\ wkr[w].pc = "push"
  /\ \E s \in wkr[w].subs :
       /\ Push(s)
       /\ Goto(w, "spawn", wkr[w].subs \ {s})
  /\ UNCHANGED <<table, expected, handler, waiting, requests, errors>>

SpawnForSubRun(w) ==
  /\ wkr[w].pc = "spawn"
  /\ waiting' = waiting + 1
  /\ Goto(w, PushOrStop(wkr[w].subs), wkr[w].subs)
  /\ UNCHANGED <<table, expected, chan, handler, requests, errors>>

\* The engine's Terminate and UpdateRun (TerminateWorker has the details).
StopRun(w) ==
  /\ wkr[w].pc = "stop"
  /\ stopped' = stopped \union {wkr[w].run}
  /\ wkr' = [wkr EXCEPT ![w] = None]
  /\ UNCHANGED <<saved, expected, chan, handler, waiting, requests, errors>>

\* GetRun, the engine or UpdateRun returns an error, and the goroutine ends;
\* an error of ListRuns only hides the sub-runs.
CallFails(w) ==
  /\ errors < MaxErrors /\ errors' = errors + 1
  /\ \/ /\ wkr[w].pc \in {"read", "stop"}
        /\ wkr' = [wkr EXCEPT ![w] = None]
     \/ /\ wkr[w].pc = "read"
        /\ Goto(w, "stop", {})
  /\ UNCHANGED <<table, expected, chan, handler, waiting, requests>>

\* The process dies with its channel.
Restart ==
  /\ errors < MaxErrors /\ errors' = errors + 1
  /\ chan' = <<>> /\ waiting' = 0
  /\ handler' = [h \in Handlers |-> "idle"]
  /\ wkr' = [w \in Workers |-> None]
  /\ UNCHANGED <<table, expected, requests>>

Proceed(w) ==
  \/ Receive(w) \/ ListSubRuns(w) \/ PushSubRun(w)
  \/ SpawnForSubRun(w) \/ StopRun(w)

Client ==
  \/ \E r \in Runs : CreateSubRun(r) \/ RunEnds(r)
  \/ \E h \in Handlers, r \in Runs : RequestTermination(h, r)

Next ==
  \/ Client \/ Restart
  \/ \E h \in Handlers : SpawnForRequest(h)
  \/ \E w \in Workers : Proceed(w) \/ CallFails(w)

Spec == Init /\ [][Next]_vars

\* Goroutines that can go on do.
FairSpec ==
  /\ Spec
  /\ \A h \in Handlers : WF_vars(SpawnForRequest(h))
  /\ \A w \in Workers : WF_vars(Proceed(w))

-----------------------------------------------------------------------------
Spawning == {h \in Handlers : handler[h] = "spawn"}
SpawningSubs == {w \in Workers : wkr[w].pc = "spawn"}

\* Every run in the channel has a goroutine that waits for it, or one about
\* to be started, and no goroutine waits for more: none of the pushes is left
\* behind and none of the goroutines is leaked.
EachHasItsGoroutine ==
  Len(chan) = waiting + Cardinality(Spawning) + Cardinality(SpawningSubs)

\* A termination reaches the run and all the sub-runs, and theirs, that exist
\* when it is asked for, however small the channel is, unless a call fails or
\* the process dies.
TreeIsStopped == \A r \in Runs : r \in expected ~> r \in stopped \/ errors > 0
=============================================================================
