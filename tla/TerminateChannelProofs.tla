----------------------- MODULE TerminateChannelProofs -----------------------
(***************************************************************************)
(* No run is left in the channel and no goroutine is leaked, for every     *)
(* capacity and every number of requests, sub-runs, errors and restarts.   *)
(***************************************************************************)
EXTENDS TerminateChannel, FiniteSetTheorems, TLAPS

\* The type invariant.
LEMMA InitTypeOK == Init => TypeOK
BY ChannelAssumption DEF Init, TypeOK, None, Busy

\* Every step keeps the types.
LEMMA NextTypeOK == TypeOK /\ [Next]_vars => TypeOK'
<1> SUFFICES ASSUME TypeOK, [Next]_vars PROVE TypeOK'
  OBVIOUS
<1> USE ChannelAssumption
<1>1. CASE UNCHANGED vars
  BY <1>1 DEF TypeOK, vars, table
<1>2. ASSUME NEW r \in Runs, CreateSubRun(r) \/ RunEnds(r) PROVE TypeOK'
  BY <1>2 DEF TypeOK, CreateSubRun, RunEnds
<1>10. ASSUME NEW h \in Handlers, NEW r \in Runs, RequestTermination(h, r) PROVE TypeOK'
  <2>1. Tree(r) \subseteq Runs
    BY DEF TypeOK, Tree
  <2>2. chan' \in Seq(Runs) /\ Len(chan') <= Capacity
    BY <1>10 DEF TypeOK, RequestTermination, Push
  <2> QED
    BY <1>10, <2>1, <2>2 DEF TypeOK, RequestTermination, table
<1>3. CASE Restart
  BY <1>3 DEF TypeOK, Restart, table
<1>4. ASSUME NEW h \in Handlers, SpawnForRequest(h) PROVE TypeOK'
  BY <1>4 DEF TypeOK, SpawnForRequest, table
<1>5. ASSUME NEW w \in Workers, Receive(w) PROVE TypeOK'
  BY <1>5 DEF TypeOK, Receive, table, Busy
<1>6. ASSUME NEW w \in Workers, ListSubRuns(w) PROVE TypeOK'
  BY <1>6 DEF TypeOK, ListSubRuns, SubRuns, PushOrStop, Goto, table, Busy, None
<1>7. ASSUME NEW w \in Workers, PushSubRun(w) PROVE TypeOK'
  <2>1. chan' \in Seq(Runs) /\ Len(chan') <= Capacity
    BY <1>7 DEF TypeOK, PushSubRun, Push, Busy, None
  <2> QED
    BY <1>7, <2>1 DEF TypeOK, PushSubRun, Goto, table, Busy, None
<1>8. ASSUME NEW w \in Workers, SpawnForSubRun(w) PROVE TypeOK'
  BY <1>8 DEF TypeOK, SpawnForSubRun, PushOrStop, Goto, table, Busy, None
<1>9. ASSUME NEW w \in Workers, StopRun(w) \/ CallFails(w) PROVE TypeOK'
  BY <1>9 DEF TypeOK, StopRun, CallFails, Goto, table, Busy, None
<1> QED
  BY <1>1, <1>2, <1>10, <1>3, <1>4, <1>5, <1>6, <1>7, <1>8, <1>9
  DEF Next, Client, Proceed

\* The type invariant holds in every reachable state.
THEOREM TypeCorrect == Spec => []TypeOK
BY InitTypeOK, NextTypeOK, PTL DEF Spec

\* Both kinds of spawners are finitely many.
LEMMA SpawnersFinite ==
  /\ IsFiniteSet(Spawning) /\ Cardinality(Spawning) \in Nat
  /\ IsFiniteSet(SpawningSubs) /\ Cardinality(SpawningSubs) \in Nat
BY ChannelAssumption, FS_Subset, FS_CardinalityType DEF Spawning, SpawningSubs

\* What leaves the channel, the goroutines and the spawners alone leaves the
\* count alone.
LEMMA SameCount ==
  ASSUME EachHasItsGoroutine, chan' = chan, waiting' = waiting,
         Spawning' = Spawning, SpawningSubs' = SpawningSubs
  PROVE  EachHasItsGoroutine'
BY DEF EachHasItsGoroutine

\* A step of goroutine w into or out of "spawn" changes that set by w alone.
LEMMA SpawningSubsAfter ==
  ASSUME NEW w \in Workers, \A v \in Workers \ {w} : wkr'[v] = wkr[v]
  PROVE  SpawningSubs' = IF wkr'[w].pc = "spawn" THEN SpawningSubs \union {w}
                                                 ELSE SpawningSubs \ {w}
BY DEF SpawningSubs

\* A push into the channel by a goroutine that then has to start another.
LEMMA PushKeepsCount ==
  ASSUME TypeOK, EachHasItsGoroutine, NEW w \in Workers, PushSubRun(w)
  PROVE  EachHasItsGoroutine'
<1>1. Len(chan') = Len(chan) + 1
  BY DEF TypeOK, PushSubRun, Push, Busy, None
<1>2. w \notin SpawningSubs
  BY DEF PushSubRun, SpawningSubs
<1>3. SpawningSubs' = SpawningSubs \union {w}
  <2>1. wkr'[w].pc = "spawn" /\ \A v \in Workers \ {w} : wkr'[v] = wkr[v]
    BY DEF TypeOK, PushSubRun, Goto
  <2> QED  BY <2>1, SpawningSubsAfter
<1>4. Cardinality(SpawningSubs') = Cardinality(SpawningSubs) + 1
  BY <1>2, <1>3, SpawnersFinite, FS_AddElement
<1>5. Spawning' = Spawning /\ waiting' = waiting
  BY DEF PushSubRun, Spawning
<1> QED
  BY <1>1, <1>4, <1>5, SpawnersFinite DEF EachHasItsGoroutine, TypeOK

\* The goroutine it starts.
LEMMA SpawnKeepsCount ==
  ASSUME TypeOK, EachHasItsGoroutine, NEW w \in Workers, SpawnForSubRun(w)
  PROVE  EachHasItsGoroutine'
<1>1. w \in SpawningSubs
  BY DEF SpawnForSubRun, SpawningSubs
<1>2. SpawningSubs' = SpawningSubs \ {w}
  <2>1. wkr'[w].pc # "spawn" /\ \A v \in Workers \ {w} : wkr'[v] = wkr[v]
    BY DEF TypeOK, SpawnForSubRun, Goto, PushOrStop
  <2> QED  BY <2>1, SpawningSubsAfter
<1>3. Cardinality(SpawningSubs') = Cardinality(SpawningSubs) - 1
  BY <1>1, <1>2, SpawnersFinite, FS_RemoveElement
<1>4. Spawning' = Spawning /\ chan' = chan /\ waiting' = waiting + 1
  BY DEF SpawnForSubRun, Spawning
<1> QED
  BY <1>3, <1>4, SpawnersFinite DEF EachHasItsGoroutine, TypeOK

\* A request pushes its run ...
LEMMA RequestKeepsCount ==
  ASSUME TypeOK, EachHasItsGoroutine, NEW h \in Handlers, NEW r \in Runs,
         RequestTermination(h, r)
  PROVE  EachHasItsGoroutine'
<1>1. Len(chan') = Len(chan) + 1
  BY DEF TypeOK, RequestTermination, Push
<1>2. h \notin Spawning /\ Spawning' = Spawning \union {h}
  BY DEF TypeOK, RequestTermination, Spawning
<1>3. Cardinality(Spawning') = Cardinality(Spawning) + 1
  BY <1>2, SpawnersFinite, FS_AddElement
<1>4. SpawningSubs' = SpawningSubs /\ waiting' = waiting
  BY DEF RequestTermination, SpawningSubs
<1> QED
  BY <1>1, <1>3, <1>4, SpawnersFinite DEF EachHasItsGoroutine, TypeOK

\* ... and starts its goroutine.
LEMMA SpawnForRequestKeepsCount ==
  ASSUME TypeOK, EachHasItsGoroutine, NEW h \in Handlers, SpawnForRequest(h)
  PROVE  EachHasItsGoroutine'
<1>1. h \in Spawning /\ Spawning' = Spawning \ {h}
  BY DEF TypeOK, SpawnForRequest, Spawning
<1>2. Cardinality(Spawning') = Cardinality(Spawning) - 1
  BY <1>1, SpawnersFinite, FS_RemoveElement
<1>3. SpawningSubs' = SpawningSubs /\ chan' = chan /\ waiting' = waiting + 1
  BY DEF SpawnForRequest, SpawningSubs
<1> QED
  BY <1>2, <1>3, SpawnersFinite DEF EachHasItsGoroutine, TypeOK

\* A goroutine takes a run: one less of each.
LEMMA ReceiveKeepsCount ==
  ASSUME TypeOK, EachHasItsGoroutine, NEW w \in Workers, Receive(w)
  PROVE  EachHasItsGoroutine'
<1>1. Len(chan') = Len(chan) - 1 /\ waiting' = waiting - 1
  BY DEF TypeOK, Receive
<1>2. SpawningSubs' = SpawningSubs
  <2>1. w \notin SpawningSubs
    BY DEF Receive, SpawningSubs
  <2>2. wkr'[w].pc # "spawn" /\ \A v \in Workers \ {w} : wkr'[v] = wkr[v]
    BY DEF TypeOK, Receive
  <2> QED  BY <2>1, <2>2, SpawningSubsAfter
<1>3. Spawning' = Spawning
  BY DEF Receive, Spawning
<1> QED
  BY <1>1, <1>2, <1>3, SpawnersFinite DEF EachHasItsGoroutine, TypeOK

\* The steps of a goroutine that do not touch the channel.
LEMMA QuietKeepsCount ==
  ASSUME TypeOK, EachHasItsGoroutine, NEW w \in Workers,
         ListSubRuns(w) \/ StopRun(w) \/ CallFails(w)
  PROVE  EachHasItsGoroutine'
<1>1. w \notin SpawningSubs
  BY DEF ListSubRuns, StopRun, CallFails, SpawningSubs
<1>2. SpawningSubs' = SpawningSubs
  <2>1. wkr'[w].pc # "spawn" /\ \A v \in Workers \ {w} : wkr'[v] = wkr[v]
    <3>1. CASE ListSubRuns(w)
      BY <3>1 DEF TypeOK, ListSubRuns, Goto, PushOrStop
    <3>2. CASE StopRun(w)
      BY <3>2 DEF TypeOK, StopRun, None
    <3>3. CASE CallFails(w)
      BY <3>3 DEF TypeOK, CallFails, Goto, None
    <3> QED  BY <3>1, <3>2, <3>3
  <2> QED  BY <1>1, <2>1, SpawningSubsAfter
<1>3. chan' = chan /\ waiting' = waiting /\ Spawning' = Spawning
  BY DEF ListSubRuns, StopRun, CallFails, Spawning
<1> QED  BY <1>2, <1>3, SameCount

\* Every run in the channel has its goroutine, and every goroutine its run.
THEOREM NothingLeaks == Spec => []EachHasItsGoroutine
<1>1. Init => EachHasItsGoroutine
  <2> SUFFICES ASSUME Init PROVE EachHasItsGoroutine
    OBVIOUS
  <2>1. Spawning = {} /\ SpawningSubs = {}
    BY DEF Init, Spawning, SpawningSubs, None
  <2>2. Cardinality({}) = 0
    BY FS_EmptySet
  <2> QED  BY <2>1, <2>2 DEF Init, EachHasItsGoroutine
<1>2. TypeOK /\ EachHasItsGoroutine /\ [Next]_vars => EachHasItsGoroutine'
  <2> SUFFICES ASSUME TypeOK, EachHasItsGoroutine, [Next]_vars
               PROVE  EachHasItsGoroutine'
    OBVIOUS
  <2>1. CASE UNCHANGED vars
    BY <2>1, SameCount DEF vars, Spawning, SpawningSubs
  <2>2. ASSUME NEW r \in Runs, CreateSubRun(r) \/ RunEnds(r)
        PROVE  EachHasItsGoroutine'
    BY <2>2, SameCount DEF CreateSubRun, RunEnds, Spawning, SpawningSubs
  <2>3. CASE Restart
    <3>1. Spawning' = {} /\ SpawningSubs' = {}
      BY <2>3 DEF Restart, Spawning, SpawningSubs, None
    <3>2. Cardinality({}) = 0
      BY FS_EmptySet
    <3> QED  BY <2>3, <3>1, <3>2 DEF Restart, EachHasItsGoroutine
  <2> QED
    BY <2>1, <2>2, <2>3, RequestKeepsCount, SpawnForRequestKeepsCount,
       ReceiveKeepsCount, PushKeepsCount, SpawnKeepsCount, QuietKeepsCount
    DEF Next, Client, Proceed
<1> QED  BY <1>1, <1>2, TypeCorrect, PTL DEF Spec
=============================================================================
