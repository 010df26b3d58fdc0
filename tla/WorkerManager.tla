---------------------------- MODULE WorkerManager ----------------------------
(***************************************************************************)
(* How many workers run: the worker table, the manager that follows it     *)
(* (worker/worker_manager.go) and the API that is to change it             *)
(* (pg_state_manager.go, UpdateWorker).  Workers of a type are alike, so   *)
(* they are counted.                                                       *)
(***************************************************************************)
EXTENDS Integers, Sequences, FiniteSets, SequencesExt

CONSTANTS
  Types,        \* the worker types with a row from the start
  LateTypes,    \* those an operator adds a row for later, such as "events"
  MaxCount,     \* the largest count_per_instance
  Callers,      \* the requests that update a worker count
  MaxEdits,     \* bound on the operator's changes to the table
  MaxStarts,    \* bound on the starts of the process
  MaxCounted,   \* bound on the strays, and on the dying, of a type that are counted
  MaxErrors     \* bound on the workers that fail to initialize

ASSUME ManagerAssumption ==
  /\ IsFiniteSet(Types) /\ Types \intersect LateTypes = {}
  /\ MaxCount \in Nat \ {0} /\ MaxEdits \in Nat /\ MaxStarts \in Nat \ {0}
  /\ MaxErrors \in Nat /\ MaxCounted \in Nat

VARIABLES
  createSchema, \* create_database_schema, which never changes
  table,    \* the rows of the worker table for the EKS engine
  manager,  \* "down", "init", "poll" or "update"
  todo,     \* the rows the manager read and did not deal with yet
  slice,    \* the length of workers[type], -1 when it has no such key
  stray,    \* running workers in no slice
  dying,    \* workers told to stop
  locked,   \* the types whose row an abandoned transaction holds
  call,     \* the requests: "idle", the type to update, or "answered"
  edits, starts, errors

workers == <<slice, stray, dying>>
api == <<createSchema, locked, call>>
bounds == <<edits, starts, errors>>
vars == <<table, manager, todo, workers, api, bounds>>

AllTypes == Types \union LateTypes
Row == [type : AllTypes, count : 0..MaxCount]

TypeOK ==
  /\ createSchema \in BOOLEAN
  /\ table \in Seq(Row) /\ todo \in Seq(Row)
  /\ manager \in {"down", "init", "poll", "update"}
  /\ slice \in [AllTypes -> -1..MaxCount]
  /\ stray \in [AllTypes -> Nat] /\ dying \in [AllTypes -> Nat]
  /\ locked \subseteq AllTypes
  /\ call \in [Callers -> Types \union {"idle", "answered"}]
  /\ edits \in 0..MaxEdits /\ starts \in 0..MaxStarts /\ errors \in 0..MaxErrors

None == [t \in AllTypes |-> 0]
NoSlice == [t \in AllTypes |-> -1]

OneMore(counts, t) == [counts EXCEPT ![t] = IF @ < MaxCounted THEN @ + 1 ELSE @]

\* One row per type, in some order.
OneRowEach == SetToSeq({[type |-> t, count |-> 1] : t \in Types})

Init ==
  /\ createSchema \in BOOLEAN
  /\ table = IF createSchema THEN <<>> ELSE OneRowEach
  /\ manager = "down" /\ todo = <<>>
  /\ slice = NoSlice /\ stray = None /\ dying = None
  /\ locked = {} /\ call = [c \in Callers |-> "idle"]
  /\ edits = 0 /\ starts = 0 /\ errors = 0

\* The process starts: Initialize inserts the rows, whether or not they are
\* there, and InitializeWorkers lists them.
Start ==
  /\ manager = "down" /\ starts < MaxStarts
  /\ starts' = starts + 1
  /\ table' = IF createSchema THEN table \o OneRowEach ELSE table
  /\ todo' = table'
  /\ manager' = "init"
  /\ UNCHANGED <<workers, api, edits, errors>>

\* Each row makes a new slice and fills it.
StartWorkers ==
  /\ manager = "init" /\ todo # <<>>
  /\ LET t == Head(todo).type
     IN  /\ slice' = [slice EXCEPT ![t] = Head(todo).count]
         /\ stray' = [stray EXCEPT ![t] = @ + (IF slice[t] > 0 THEN slice[t] ELSE 0)]
  /\ todo' = Tail(todo)
  /\ UNCHANGED <<table, manager, dying, api, bounds>>

\* The manager starts to follow the table, and sleeps between two rounds.
Sleep ==
  /\ manager \in {"init", "update"} /\ todo = <<>>
  /\ manager' = "poll"
  /\ UNCHANGED <<table, todo, workers, api, bounds>>

\* runOnce reads the rows.
ListWorkers ==
  /\ manager = "poll"
  /\ todo' = table /\ manager' = "update"
  /\ UNCHANGED <<table, workers, api, bounds>>

Current(t) == IF slice[t] = -1 THEN 0 ELSE slice[t]

NextRow == todo' = Tail(todo) /\ UNCHANGED <<table, manager, api, bounds>>
SameRow == UNCHANGED <<table, manager, todo, api>>

CountsMatch ==
  /\ manager = "update" /\ todo # <<>>
  /\ Current(Head(todo).type) = Head(todo).count
  /\ NextRow /\ UNCHANGED workers

\* A bug: the slice is shortened and the worker is not told.
ForgetWorker ==
  /\ manager = "update" /\ todo # <<>>
  /\ LET t == Head(todo).type
     IN  /\ Current(t) > Head(todo).count
         /\ slice' = [slice EXCEPT ![t] = @ - 1]
         /\ stray' = OneMore(stray, t)
  /\ SameRow /\ UNCHANGED <<dying, bounds>>

\* A bug: the loop that removes workers goes one too far.
RemoveOneMore ==
  /\ manager = "update" /\ todo # <<>>
  /\ LET t == Head(todo).type
     IN  /\ Current(t) >= Head(todo).count /\ slice[t] > 0
         /\ slice' = [slice EXCEPT ![t] = @ - 1]
         /\ dying' = OneMore(dying, t)
  /\ SameRow /\ UNCHANGED <<stray, bounds>>

\* The last worker of the slice is killed: it ends after its round.
RemoveWorker ==
  /\ manager = "update" /\ todo # <<>>
  /\ LET t == Head(todo).type
     IN  /\ Current(t) > Head(todo).count
         /\ slice' = [slice EXCEPT ![t] = @ - 1]
         /\ dying' = OneMore(dying, t)
  /\ SameRow /\ UNCHANGED <<stray, bounds>>

\* The worker runs before workers[type] is looked up: without that key, it is
\* "invalid worker type" and the row is left for the next round.
AddWorker ==
  /\ manager = "update" /\ todo # <<>>
  /\ LET t == Head(todo).type
     IN  /\ Current(t) < Head(todo).count
         /\ \/ /\ slice[t] # -1
               /\ slice' = [slice EXCEPT ![t] = @ + 1]
               /\ SameRow /\ UNCHANGED <<stray, bounds>>
            \/ /\ slice[t] = -1
               /\ stray' = OneMore(stray, t)
               /\ NextRow /\ UNCHANGED slice
  /\ UNCHANGED dying

\* NewWorker returns an error, which ends the initialization or the row.
NewWorkerFails ==
  /\ errors < MaxErrors /\ errors' = errors + 1
  /\ todo # <<>>
  /\ \/ /\ manager = "update" /\ Current(Head(todo).type) < Head(todo).count
        /\ todo' = Tail(todo)
        /\ UNCHANGED <<manager, workers>>
     \/ /\ manager = "init" /\ Head(todo).count > 0 /\ starts < MaxStarts
        /\ manager' = "down" /\ todo' = <<>>
        /\ slice' = NoSlice /\ stray' = None /\ dying' = None
  /\ UNCHANGED <<table, api, edits, starts>>

WorkerEnds(t) ==
  /\ dying[t] > 0
  /\ dying' = [dying EXCEPT ![t] = @ - 1]
  /\ UNCHANGED <<table, manager, todo, slice, stray, api, bounds>>

\* The process dies with its workers, transactions and requests.
Crash ==
  /\ manager # "down" /\ starts < MaxStarts
  /\ manager' = "down" /\ todo' = <<>>
  /\ slice' = NoSlice /\ stray' = None /\ dying' = None
  /\ locked' = {} /\ call' = [c \in Callers |-> "idle"]
  /\ UNCHANGED <<createSchema, table, bounds>>

\* An operator changes the count of a type, or adds the row of another.
EditTable ==
  /\ edits < MaxEdits /\ edits' = edits + 1
  /\ \E n \in 0..MaxCount :
       \/ \E t \in Types \ locked :
            table' = [i \in DOMAIN table |->
                        IF table[i].type = t THEN [table[i] EXCEPT !.count = n] ELSE table[i]]
       \/ \E t \in LateTypes :
            /\ \A i \in DOMAIN table : table[i].type # t
            /\ table' = Append(table, [type |-> t, count |-> n])
  /\ UNCHANGED <<manager, todo, workers, api, starts, errors>>

CallUpdate(c, t) ==
  /\ call[c] = "idle" /\ manager \in {"poll", "update"}
  /\ call' = [call EXCEPT ![c] = t]
  /\ UNCHANGED <<createSchema, table, manager, todo, workers, locked, bounds>>

\* "select ... for update" waits for the lock of the row and takes it.  Its
\* three columns do not fit Scan's two destinations, and that error returns
\* without Rollback: the transaction stays open.
UpdateWorker(c, t) ==
  /\ call[c] = t /\ t \notin locked
  /\ locked' = locked \union {t}
  /\ call' = [call EXCEPT ![c] = "answered"]
  /\ UNCHANGED <<createSchema, table, manager, todo, workers, bounds>>

Manage ==
  \/ StartWorkers \/ Sleep \/ ListWorkers
  \/ CountsMatch \/ RemoveWorker \/ AddWorker

Next ==
  \/ Start \/ Manage \/ NewWorkerFails \/ Crash \/ EditTable
  \/ \E t \in AllTypes : WorkerEnds(t)
  \/ \E c \in Callers, t \in Types : CallUpdate(c, t) \/ UpdateWorker(c, t)

Spec == Init /\ [][Next]_vars

\* The process is started again, its manager and its workers go on, and the
\* database serves the requests.
FairSpec ==
  /\ Spec
  /\ WF_vars(Start) /\ WF_vars(Manage)
  /\ \A t \in AllTypes : WF_vars(WorkerEnds(t))
  /\ \A c \in Callers, t \in Types : WF_vars(UpdateWorker(c, t))

-----------------------------------------------------------------------------
\* A start with create_database_schema inserts the rows of the start before
\* once more, which no constraint of the table refuses.
Doubled(t) ==
  \E i, j \in DOMAIN table : i # j /\ table[i].type = t /\ table[j].type = t

\* Once nobody changes the table, as many workers of each type run as it says
\* (worker_manager.go:123 and :133, "until the counts match"), whatever the
\* order of edits, polls, failures and restarts, unless its row is doubled.
CountsSettle ==
  <>[](\A i \in DOMAIN table :
         LET t == table[i].type
         IN  t \in Types => \/ Doubled(t)
                            \/ slice[t] = table[i].count /\ stray[t] = 0 /\ dying[t] = 0)

\* Every worker that runs and was not told to stop is in the manager's slices,
\* so that it can be (worker_manager.go:52, "append[s] the worker to the
\* appropriate slice"), except those of a type whose row came after the start,
\* and those of a doubled row.
EveryWorkerTracked ==
  \A t \in AllTypes : stray[t] > 0 => slice[t] = -1 \/ Doubled(t)
=============================================================================
