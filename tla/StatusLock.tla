----------------------------- MODULE StatusLock -----------------------------
(***************************************************************************)
(* The Redis key that is to keep the status workers off a run one of them  *)
(* polls (worker/status_worker.go, acquireLock): TTL, Del and SetNX are    *)
(* three calls, and another process may act between them.  A poll is one   *)
(* call of acquireLock and the goroutine it leads to; a process calls      *)
(* acquireLock for one run after the other, while its goroutines work.     *)
(***************************************************************************)
EXTENDS FiniteSets, Naturals

CONSTANTS
  Polls,       \* the polls of one run under way at once, at most
  NoPoll,      \* not a poll
  MaxProcesses, \* bound on the status worker processes there are
  MaxCrashes   \* bound on the polls that die with their process

ASSUME LockAssumption ==
  /\ IsFiniteSet(Polls) /\ NoPoll \notin Polls
  /\ MaxProcesses \in Nat \ {0} /\ MaxCrashes \in Nat

VARIABLES
  key,     \* the poll that set the key, or NoPoll when there is no key
  poll,    \* the next call of each poll
  crashes, \* how many polls died
  processes,   \* how many status worker processes there are
  redisFails,  \* whether Redis may fail
  overruns     \* whether a goroutine may take longer than the 45 seconds

\* What the workers run on, and never changes.
deployment == <<processes, redisFails, overruns>>

vars == <<key, poll, crashes, processes, redisFails, overruns>>

PollStates == {"idle", "ttl", "del", "set", "work"}

TypeOK ==
  /\ key \in Polls \union {NoPoll}
  /\ poll \in [Polls -> PollStates]
  /\ crashes \in 0..MaxCrashes
  /\ processes \in 1..MaxProcesses
  /\ redisFails \in BOOLEAN /\ overruns \in BOOLEAN

\* In every deployment.
Init ==
  /\ key = NoPoll
  /\ poll = [q \in Polls |-> "idle"]
  /\ crashes = 0
  /\ processes \in 1..MaxProcesses
  /\ redisFails \in BOOLEAN /\ overruns \in BOOLEAN

Goto(q, pc) == poll' = [poll EXCEPT ![q] = pc]

\* The polls inside acquireLock, at most one per process.
Acquiring == {q \in Polls : poll[q] \in {"ttl", "del", "set"}}

ListRun(q) ==
  /\ poll[q] = "idle" /\ Cardinality(Acquiring) < processes
  /\ Goto(q, "ttl")
  /\ UNCHANGED <<key, crashes, deployment>>

\* A negative TTL, that of a missing key, leads to Del; an error does not.
AskTTL(q) ==
  /\ poll[q] = "ttl"
  /\ \/ Goto(q, IF key = NoPoll THEN "del" ELSE "set")
     \/ redisFails /\ Goto(q, "set")
  /\ UNCHANGED <<key, crashes, deployment>>

\* Del, whichever key there is by now.
Delete(q) ==
  /\ poll[q] = "del"
  /\ \/ key' = NoPoll
     \/ redisFails /\ UNCHANGED key
  /\ Goto(q, "set")
  /\ UNCHANGED <<crashes, deployment>>

\* A bug: Set in the place of SetNX.
SetAlways(q) ==
  /\ poll[q] = "set"
  /\ key' = q
  /\ Goto(q, "work")
  /\ UNCHANGED <<crashes, deployment>>

SetNX(q) ==
  /\ poll[q] = "set"
  /\ IF key = NoPoll THEN key' = q /\ Goto(q, "work")
                     ELSE UNCHANGED key /\ Goto(q, "idle")
  /\ UNCHANGED <<crashes, deployment>>

\* "unable to set lock": the run is processed all the same, whether the key
\* was set and the reply lost, or not.
SetFails(q) ==
  /\ redisFails /\ poll[q] = "set"
  /\ key' \in {key, IF key = NoPoll THEN q ELSE key}
  /\ Goto(q, "work")
  /\ UNCHANGED <<crashes, deployment>>

\* processEKSRun returns and leaves the key to expire.
Finish(q) ==
  /\ poll[q] = "work" /\ Goto(q, "idle")
  /\ UNCHANGED <<key, crashes, deployment>>

Crash(q) ==
  /\ poll[q] # "idle" /\ crashes < MaxCrashes
  /\ crashes' = crashes + 1
  /\ Goto(q, "idle")
  /\ UNCHANGED <<key, deployment>>

\* A bug: the key has no expiration, its holder deletes it when it is done.
ReleasedByHolder ==
  /\ key # NoPoll /\ poll[key] = "work"
  /\ Goto(key, "idle") /\ key' = NoPoll
  /\ UNCHANGED <<crashes, deployment>>

\* The 45 seconds are over, as a rule after the goroutine that set the key.
Expire ==
  /\ key # NoPoll /\ (overruns \/ poll[key] # "work")
  /\ key' = NoPoll
  /\ UNCHANGED <<poll, crashes, deployment>>

Advance(q) == ListRun(q) \/ AskTTL(q) \/ Delete(q) \/ SetNX(q)

Next ==
  \/ Expire
  \/ \E q \in Polls : Advance(q) \/ SetFails(q) \/ Finish(q) \/ Crash(q)

Spec == Init /\ [][Next]_vars

\* Redis expires keys, and the calls and the goroutines return.
FairSpec ==
  /\ Spec /\ WF_vars(Expire)
  /\ \A q \in Polls : WF_vars(Advance(q)) /\ WF_vars(Finish(q))

\* A single process, a Redis that answers and goroutines that are done before
\* the key expires.
Alone == processes = 1 /\ ~redisFails /\ ~overruns

\* "Redis host for caching and locks" (README.md:250): two goroutines never
\* work on one run at the same time, where the workers are alone.  Where they
\* are not, TTL, Del and SetNX of two processes mix, and they do.
ExclusiveAlone ==
  Alone => \A p, q \in Polls : poll[p] = "work" /\ poll[q] = "work" => p = q

\* In every deployment, the lock of a poll that died, or is done, does not keep
\* the run from being polled again: whatever a poll leaves behind, some poll
\* gets to work.
PolledAgain == []<>(\E q \in Polls : poll[q] = "work")
=============================================================================
