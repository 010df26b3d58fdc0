------------------------------- MODULE LogTail -------------------------------
(***************************************************************************)
(* A client that follows the log of a run: it asks GetLogs                 *)
(* (flotilla/endpoints.go) again and again, each time with the last_seen   *)
(* of the previous answer, while the file in S3 grows.  The two readers of *)
(* clients/logs/eks_s3_logs_client.go number the lines of the file:        *)
(* logsToMessageString for a run of the EKS engine, at most a chunk a      *)
(* time, and emrLogsToMessageString for one of EMR.  Lines are their       *)
(* numbers in the file; what is logged after the last newline is no line.  *)
(***************************************************************************)
EXTENDS Integers

CONSTANTS
  Engine,       \* "eks" or "eks-spark", the engine of the run
  MaxLogLines,  \* state.MaxLogLines
  Garbled,      \* the lines of an EKS log that are not the JSON of a message
  Rotates,      \* whether a retried pod may start another file
  MaxLines      \* bound on the lines of the file

VARIABLES
  status,    \* "early": not RUNNING and not STOPPED
  lines,     \* complete lines in the latest file
  lastSeen,  \* what the client got last and will send next; "" is 0
  shown      \* the lines the client was given

vars == <<status, lines, lastSeen, shown>>

LogStatuses == {"early", "RUNNING", "STOPPED"}

TypeOK ==
  /\ status \in LogStatuses
  /\ lines \in Nat
  /\ lastSeen \in Nat
  /\ shown \subseteq Nat \ {0}

Init == status = "early" /\ lines = 0 /\ lastSeen = 0 /\ shown = {}

\* A bounded poll stops one line past MaxLogLines: its loop runs while the
\* position is at most that far from the start, and counts the line first.
ChunkEnd(start) == start + MaxLogLines + 1

\* logsToMessageString: the position after a call that starts at start.  A file
\* that ends before start is not read; one that ends within the chunk is found
\* to end by a read that was counted already.
PositionAfter(start) ==
  IF lines < start THEN start
  ELSE IF lines >= ChunkEnd(start) THEN ChunkEnd(start)
  ELSE lines + 1

\* The lines such a call returns: the others of the chunk do not parse.
LinesFrom(start) == {n \in (start + 1)..lines : n <= ChunkEnd(start)} \ Garbled

-----------------------------------------------------------------------------

\* The job logs a line, which reaches S3 whatever the status of the run is.
LogLine ==
  /\ lines < MaxLines
  /\ lines' = lines + 1
  /\ UNCHANGED <<status, lastSeen, shown>>

\* A retry takes a run out of any status, back to one without a log.
RunMoves ==
  /\ status' \in {s \in LogStatuses : status = "STOPPED" => s = "early"}
  /\ UNCHANGED <<lines, lastSeen, shown>>

\* getS3Object takes the file that was modified last.
NewFile ==
  /\ Rotates /\ lines > 0
  /\ lines' = 1
  /\ UNCHANGED <<status, lastSeen, shown>>

HasLog == status \in {"RUNNING", "STOPPED"} /\ lines > 0

\* The log service has no log of a run that is not under way: last_seen is "".
PollEarly ==
  /\ status = "early"
  /\ lastSeen' = 0
  /\ UNCHANGED <<status, lines, shown>>

PollEks ==
  /\ HasLog /\ Engine = "eks"
  /\ lastSeen' = PositionAfter(lastSeen)
  /\ shown' = shown \union LinesFrom(lastSeen)
  /\ UNCHANGED <<status, lines>>

\* emrLogsToMessageString counts the lines it read, in a file that is whole.
PollEmr ==
  /\ HasLog /\ Engine = "eks-spark"
  /\ lastSeen' = lines
  /\ shown' = shown \union (lastSeen + 1)..lines
  /\ UNCHANGED <<status, lines>>

\* No pod, no file or an error of S3: the client is sent its last_seen again.
PollFails ==
  /\ status # "early"
  /\ UNCHANGED vars

Next == LogLine \/ RunMoves \/ NewFile \/ PollEarly \/ PollEks \/ PollEmr \/ PollFails

Spec == Init /\ [][Next]_vars

-----------------------------------------------------------------------------

\* "Logs returns all logs from the log stream identified by handle since
\* lastSeen" (clients/logs/eks_s3_logs_client.go:206): whatever line is behind
\* the client's position was returned to it.
NothingSkipped ==
  \A n \in (1..lines) \ Garbled : n <= lastSeen => n \in shown
=============================================================================
