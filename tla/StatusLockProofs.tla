-------------------------- MODULE StatusLockProofs --------------------------
(***************************************************************************)
(* The lock does exclude where there is a single process, Redis answers    *)
(* and the goroutines are done in time: the condition the deployment must  *)
(* meet, for any number of polls and of crashes.                           *)
(***************************************************************************)
EXTENDS StatusLock, FiniteSetTheorems, TLAPS

\* A goroutine at work holds the key.
WorkersHoldKey == \A q \in Polls : poll[q] = "work" => key = q

\* One poll at a time is inside acquireLock.
OneAcquires == \A p, q \in Acquiring : p = q

\* A poll about to call Del or SetNX after it saw no key still finds none, so
\* that its Del removes the key of nobody.
DelFindsNoKey == \A q \in Polls : poll[q] = "del" => key = NoPoll

IInv == TypeOK /\ WorkersHoldKey /\ OneAcquires /\ DelFindsNoKey

\* The guard of ListRun with one process: nobody is inside acquireLock.
LEMMA NobodyAcquires ==
  ASSUME processes = 1, Cardinality(Acquiring) < processes
  PROVE  Acquiring = {}
<1>1. IsFiniteSet(Acquiring)
  BY FS_Subset, LockAssumption DEF Acquiring
<1>2. Cardinality(Acquiring) = 0
  BY <1>1, FS_CardinalityType
<1> QED  BY <1>1, <1>2, FS_EmptySet

\* The type invariant, whatever the number of processes and the faults.
THEOREM TypeCorrect == Spec => []TypeOK
<1>1. Init => TypeOK
  BY LockAssumption DEF Init, TypeOK, PollStates
<1>2. TypeOK /\ [Next]_vars => TypeOK'
  <2> SUFFICES ASSUME TypeOK, [Next]_vars PROVE TypeOK'
    OBVIOUS
  <2> USE DEF deployment
  <2>1. CASE UNCHANGED vars
    BY <2>1 DEF TypeOK, vars
  <2>2. CASE Expire
    BY <2>2 DEF TypeOK, Expire
  <2>3. ASSUME NEW q \in Polls, Advance(q) PROVE TypeOK'
    BY <2>3 DEF TypeOK, PollStates, Advance, ListRun, AskTTL, Delete, SetNX, Goto
  <2>4. ASSUME NEW q \in Polls, SetFails(q) \/ Finish(q) PROVE TypeOK'
    BY <2>4 DEF TypeOK, PollStates, SetFails, Finish, Goto
  <2>5. ASSUME NEW q \in Polls, Crash(q) PROVE TypeOK'
    BY <2>5, LockAssumption DEF TypeOK, PollStates, Crash, Goto
  <2> QED  BY <2>1, <2>2, <2>3, <2>4, <2>5 DEF Next
<1> QED  BY <1>1, <1>2, PTL DEF Spec

\* Every step of a lone process keeps the invariant.
LEMMA AloneStep ==
  ASSUME Alone, IInv, TypeOK', [Next]_vars
  PROVE  Alone' /\ IInv'
<1>0. Alone'
  BY DEF Alone, vars, Next, Advance, ListRun, AskTTL, Delete, SetNX, SetFails, Finish, Crash,
     Expire, deployment
<1> USE LockAssumption DEF IInv
<1>1. ASSUME UNCHANGED vars PROVE IInv'
  BY <1>1 DEF vars, WorkersHoldKey, OneAcquires, DelFindsNoKey, Acquiring
<1>2. ASSUME Expire PROVE IInv'
  BY <1>2 DEF Alone, Expire, TypeOK, WorkersHoldKey, OneAcquires, DelFindsNoKey, Acquiring
<1>3. ASSUME NEW q \in Polls, ListRun(q) PROVE IInv'
  <2>1. Acquiring = {}
    BY <1>3, NobodyAcquires DEF Alone, ListRun
  <2> QED
    BY <1>3, <2>1 DEF ListRun, Goto, TypeOK, WorkersHoldKey, OneAcquires, DelFindsNoKey, Acquiring
<1>4. ASSUME NEW q \in Polls, AskTTL(q) PROVE IInv'
  BY <1>4 DEF Alone, AskTTL, Goto, TypeOK, WorkersHoldKey, OneAcquires, DelFindsNoKey, Acquiring
<1>5. ASSUME NEW q \in Polls, Delete(q) PROVE IInv'
  BY <1>5 DEF Alone, Delete, Goto, TypeOK, WorkersHoldKey, OneAcquires, DelFindsNoKey, Acquiring
<1>6. ASSUME NEW q \in Polls, SetNX(q) PROVE IInv'
  BY <1>6 DEF SetNX, Goto, TypeOK, WorkersHoldKey, OneAcquires, DelFindsNoKey, Acquiring
<1>7. ASSUME NEW q \in Polls, Finish(q) PROVE IInv'
  BY <1>7 DEF Finish, Goto, TypeOK, WorkersHoldKey, OneAcquires, DelFindsNoKey, Acquiring
<1>8. ASSUME NEW q \in Polls, Crash(q) PROVE IInv'
  BY <1>8 DEF Crash, Goto, TypeOK, WorkersHoldKey, OneAcquires, DelFindsNoKey, Acquiring
<1> QED
  BY <1>0, <1>1, <1>2, <1>3, <1>4, <1>5, <1>6, <1>7, <1>8 DEF Next, Advance, Alone, SetFails

\* With one process, a Redis that answers and goroutines that are done within
\* the expiration, two goroutines never work on one run at the same time.
THEOREM AloneIsExclusive == Spec => []ExclusiveAlone
<1> DEFINE Held == Alone => IInv
<1>1. Init => Held
  BY LockAssumption
  DEF Init, IInv, TypeOK, PollStates, WorkersHoldKey, OneAcquires, DelFindsNoKey, Acquiring
<1>2. Held /\ TypeOK' /\ [Next]_vars => Held'
  <2>1. ~Alone /\ [Next]_vars => ~Alone'
    BY DEF Alone, vars, Next, Advance, ListRun, AskTTL, Delete, SetNX, SetFails, Finish, Crash,
       Expire, deployment
  <2> QED  BY <2>1, AloneStep
<1>3. Held => ExclusiveAlone
  BY DEF IInv, WorkersHoldKey, ExclusiveAlone
<1> QED  BY <1>1, <1>2, <1>3, TypeCorrect, PTL DEF Spec
=============================================================================
