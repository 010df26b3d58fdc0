---------------------------- MODULE LogTailProofs ----------------------------
(***************************************************************************)
(* Which of the readers of LogTail a client may follow a log with, and why *)
(* the other one fails only between calls.                                 *)
(***************************************************************************)
EXTENDS LogTail, TLAPS

\* Every variable keeps its type.
THEOREM TypeCorrect ==
  ASSUME MaxLogLines \in Nat
  PROVE  Spec => []TypeOK
<1>1. Init => TypeOK
  BY DEF Init, TypeOK, LogStatuses
<1>2. ASSUME TypeOK, [Next]_vars
      PROVE  TypeOK'
  <2>1. PositionAfter(lastSeen) \in Nat /\ LinesFrom(lastSeen) \subseteq Nat \ {0}
    BY <1>2 DEF TypeOK, PositionAfter, LinesFrom, ChunkEnd
  <2>2. (lastSeen + 1)..lines \subseteq Nat \ {0}
    BY <1>2 DEF TypeOK
  <2>3. CASE RunMoves
    BY <1>2, <2>3 DEF TypeOK, RunMoves
  <2>4. CASE LogLine \/ NewFile \/ PollEarly
    <3>1. /\ status' = status /\ shown' = shown
          /\ lines' \in {lines, lines + 1, 1} /\ lastSeen' \in {lastSeen, 0}
      BY <2>4 DEF LogLine, NewFile, PollEarly
    <3> QED BY <1>2, <3>1 DEF TypeOK
  <2>5. CASE PollEks
    BY <1>2, <2>1, <2>5 DEF TypeOK, PollEks
  <2>6. CASE PollEmr
    <3>1. /\ lastSeen' = lines /\ shown' = shown \union (lastSeen + 1)..lines
          /\ UNCHANGED <<status, lines>>
      BY <2>6 DEF PollEmr
    <3> QED BY <1>2, <2>2, <3>1 DEF TypeOK
  <2>7. CASE UNCHANGED vars
    BY <1>2, <2>7 DEF TypeOK, vars
  <2> QED
    BY <1>2, <2>3, <2>4, <2>5, <2>6, <2>7 DEF Next, PollFails
<1> QED BY <1>1, <1>2, PTL DEF Spec

\* The counting of emrLogsToMessageString: the client is at most at the end of
\* the file and has all that is behind it.
Counted ==
  /\ lines \in Nat /\ lastSeen \in Nat
  /\ lastSeen <= lines
  /\ 1..lastSeen \subseteq shown

\* A client that follows the log of an EMR run misses no line of it, whatever
\* it asks when, however many calls fail and whatever becomes of the run, as
\* long as the file is not replaced: emrLogsToMessageString.
THEOREM EmrTailIsComplete ==
  ASSUME Engine = "eks-spark", ~Rotates
  PROVE  Spec => []NothingSkipped
<1>1. Init => Counted
  BY DEF Init, Counted
<1>2. ASSUME Counted, [Next]_vars
      PROVE  Counted'
  <2>1. CASE LogLine
    BY <1>2, <2>1 DEF LogLine, Counted
  <2>2. CASE PollEarly
    BY <1>2, <2>2 DEF PollEarly, Counted
  <2>3. CASE PollEmr
    <3>1. /\ lines' = lines /\ lastSeen' = lines
          /\ shown' = shown \union (lastSeen + 1)..lines
      BY <2>3 DEF PollEmr
    <3>2. 1..lines = 1..lastSeen \union (lastSeen + 1)..lines
      BY <1>2 DEF Counted
    <3> QED BY <1>2, <3>1, <3>2 DEF Counted
  <2>4. CASE UNCHANGED <<lines, lastSeen, shown>>
    BY <1>2, <2>4 DEF Counted
  <2> QED
    BY <1>2, <2>1, <2>2, <2>3, <2>4 DEF Next, RunMoves, NewFile, PollEks, PollFails, vars
<1>3. Counted => NothingSkipped
  BY DEF Counted, NothingSkipped
<1> QED BY <1>1, <1>2, <1>3, PTL DEF Spec

\* Within one call logsToMessageString returns every line that is there and
\* that its new position passes: what a client loses was logged later.
THEOREM EksCallIsComplete ==
  ASSUME lines \in Nat, MaxLogLines \in Nat, NEW start \in Nat,
         NEW n \in Nat, start < n, n <= lines, n <= PositionAfter(start), n \notin Garbled
  PROVE  n \in LinesFrom(start)
BY DEF LinesFrom, PositionAfter, ChunkEnd

\* A client that catches up with an EKS log is sent a position one past its
\* end, so that the next line to be logged is behind it.
THEOREM EksCatchUpOverruns ==
  ASSUME lines \in Nat, MaxLogLines \in Nat, NEW start \in Nat,
         start <= lines, lines <= start + MaxLogLines
  PROVE  PositionAfter(start) = lines + 1
BY DEF PositionAfter, ChunkEnd
=============================================================================
