------------------------ MODULE WorkerManagerProofs ------------------------
(***************************************************************************)
(* Theorems about WorkerManager, for every set of types and callers and    *)
(* every bound.  A worker is lost track of when InitializeWorkers makes a  *)
(* second slice for its type, so the inductive invariant says which rows   *)
(* that loop has dealt with; the table only grows and a row keeps its      *)
(* type, so that a doubled row stays one.                                  *)
(***************************************************************************)
EXTENDS WorkerManager, FunctionTheorems, FiniteSetTheorems, SequenceTheorems, TLAPS

\* No worker runs without the manager.
DownInv == manager = "down" => slice = NoSlice /\ stray = None

\* InitializeWorkers is done with the first k rows it read and is to deal with
\* the next, and only a type of the former has a slice; it lost the workers of
\* the types it met twice.
Reached(k) ==
  /\ k + Len(todo) <= Len(table)
  /\ \A i \in 1..Len(todo) : todo[i].type = table[k + i].type
  /\ \A t \in AllTypes : slice[t] # -1 => \E i \in 1..k : table[i].type = t

StartInv ==
  manager = "init" =>
    /\ \E k \in Nat : Reached(k)
    /\ \A t \in AllTypes : stray[t] > 0 => Doubled(t)

IInv == TypeOK /\ DownInv /\ StartInv /\ EveryWorkerTracked

-----------------------------------------------------------------------------
(* The table. *)

\* Initialize inserts well-formed rows.
LEMMA OneRowEachIsTable ==
  OneRowEach \in Seq(Row)
<1> DEFINE S == {[type |-> t, count |-> 1] : t \in Types}
<1> DEFINE f == [t \in Types |-> [type |-> t, count |-> 1]]
<1>1. f \in Surjection(Types, S)
  BY DEF Surjection
<1>2. IsFiniteSet(S)
  BY <1>1, ManagerAssumption, FS_Surjection
<1>3. PICK n \in Nat : n = Cardinality(S) /\ ExistsBijection(1..n, S)
  BY <1>2, FS_CardinalityType
<1>4. \E g \in [1..n -> S] : IsInjective(g)
  <2>1. PICK g : g \in Bijection(1..n, S)
    BY <1>3 DEF ExistsBijection
  <2>2. g \in [1..n -> S] /\ \A a, b \in 1..n : g[a] = g[b] => a = b
    BY <2>1 DEF Bijection, Injection, IsInjective
  <2>3. IsInjective(g)
    BY <2>2 DEF IsInjective
  <2> QED BY <2>2, <2>3
<1>5. SetToSeq(S) \in [1..n -> S]
  BY <1>3, <1>4 DEF SetToSeq
<1>6. S \subseteq Row
  BY ManagerAssumption DEF Row, AllTypes
<1>7. SetToSeq(S) \in Seq(Row)
  <2> HIDE DEF S
  <2>1. SetToSeq(S) \in [1..n -> Row]
    BY <1>5, <1>6
  <2> QED BY <2>1
<1> QED BY <1>7 DEF OneRowEach

\* The table only grows at its end, and a row keeps its type.
TableGrows ==
  /\ Len(table) <= Len(table')
  /\ \A i \in 1..Len(table) : table'[i].type = table[i].type

\* A doubled row stays one.
LEMMA DoubledStays ==
  ASSUME table \in Seq(Row), table' \in Seq(Row), TableGrows, NEW t, Doubled(t)
  PROVE  Doubled(t)'
<1>1. PICK i, j \in 1..Len(table) : i # j /\ table[i].type = t /\ table[j].type = t
  BY DEF Doubled
<1>2. i \in DOMAIN table' /\ j \in DOMAIN table'
  BY DEF TableGrows
<1> QED BY <1>1, <1>2 DEF Doubled, TableGrows

\* Whoever changes the table lets it grow.
LEMMA TableKeeps ==
  ASSUME TypeOK, [Next]_vars
  PROVE  table' \in Seq(Row) /\ TableGrows
<1>0. table \in Seq(Row) /\ Len(table) \in Nat
  BY DEF TypeOK
<1>1. CASE table' = table
  BY <1>0, <1>1 DEF TableGrows
<1>2. CASE Start
  <2>1. CASE table' = table \o OneRowEach
    <3>1. /\ table' \in Seq(Row) /\ Len(table') = Len(table) + Len(OneRowEach)
          /\ \A i \in 1..Len(table) : table'[i] = table[i]
      BY <1>0, <2>1, OneRowEachIsTable, ConcatProperties
    <3>2. Len(OneRowEach) \in Nat
      BY OneRowEachIsTable
    <3> QED BY <1>0, <3>1, <3>2 DEF TableGrows
  <2> QED BY <1>1, <1>2, <2>1 DEF Start
<1>3. CASE EditTable
  <2>1. PICK n \in 0..MaxCount :
          \/ \E t \in Types \ locked :
               table' = [i \in DOMAIN table |->
                           IF table[i].type = t THEN [table[i] EXCEPT !.count = n] ELSE table[i]]
          \/ \E t \in LateTypes : table' = Append(table, [type |-> t, count |-> n])
    BY <1>3 DEF EditTable
  <2>2. ASSUME NEW t \in Types,
               table' = [i \in DOMAIN table |->
                           IF table[i].type = t THEN [table[i] EXCEPT !.count = n] ELSE table[i]]
        PROVE  table' \in Seq(Row) /\ TableGrows
    <3>1. \A i \in 1..Len(table) :
            table[i] \in Row /\ [table[i] EXCEPT !.count = n] \in Row
            /\ [table[i] EXCEPT !.count = n].type = table[i].type
      <4>1. ASSUME NEW row \in Row
            PROVE  [row EXCEPT !.count = n] \in Row /\ [row EXCEPT !.count = n].type = row.type
        BY <2>1 DEF Row
      <4>2. \A i \in 1..Len(table) : table[i] \in Row
        BY <1>0
      <4> QED BY <4>1, <4>2
    <3>2. /\ table' \in [1..Len(table) -> Row]
          /\ \A i \in 1..Len(table) : table'[i].type = table[i].type
      BY <1>0, <2>2, <3>1
    <3>3. table' \in Seq(Row) /\ Len(table') = Len(table)
      BY <1>0, <3>2
    <3> QED BY <1>0, <3>2, <3>3 DEF TableGrows
  <2>3. ASSUME NEW t \in LateTypes, table' = Append(table, [type |-> t, count |-> n])
        PROVE  table' \in Seq(Row) /\ TableGrows
    <3>1. [type |-> t, count |-> n] \in Row
      BY <2>1 DEF Row, AllTypes
    <3>2. /\ table' \in Seq(Row) /\ Len(table') = Len(table) + 1
          /\ \A i \in 1..Len(table) : table'[i] = table[i]
      BY <1>0, <2>3, <3>1, AppendProperties
    <3> QED BY <1>0, <3>2 DEF TableGrows
  <2> QED BY <2>1, <2>2, <2>3
<1> QED
  BY <1>1, <1>2, <1>3
  DEF Next, vars, Manage, StartWorkers, Sleep, ListWorkers, CountsMatch, NextRow, SameRow,
      RemoveWorker, AddWorker, NewWorkerFails, WorkerEnds, Crash, CallUpdate, UpdateWorker

-----------------------------------------------------------------------------
(* Types. *)

\* The row in hand is a row, and the rest a list of them.
LEMMA HeadIsRow ==
  ASSUME TypeOK, todo # <<>>
  PROVE  /\ Head(todo).type \in AllTypes /\ Head(todo).count \in 0..MaxCount
         /\ Tail(todo) \in Seq(Row)
         /\ Head(todo) = todo[1] /\ Len(todo) \in Nat /\ Len(todo) > 0
         /\ Len(Tail(todo)) = Len(todo) - 1
         /\ \A i \in 1..Len(Tail(todo)) : Tail(todo)[i] = todo[i + 1]
<1>1. todo \in Seq(Row)
  BY DEF TypeOK
<1>2. Head(todo) \in Row
  BY <1>1, HeadTailProperties
<1> QED BY <1>1, <1>2, HeadTailProperties DEF Row

\* A count of workers stays one.
LEMMA OneMoreCounts ==
  ASSUME NEW f \in [AllTypes -> Nat], NEW t \in AllTypes
  PROVE  OneMore(f, t) \in [AllTypes -> Nat]
BY DEF OneMore

\* Every step keeps the types.
LEMMA TypeNext ==
  ASSUME TypeOK, [Next]_vars
  PROVE  TypeOK'
<1>t. table' \in Seq(Row)
  BY TableKeeps
<1>m. MaxCount \in Nat \ {0} /\ MaxEdits \in Nat /\ MaxStarts \in Nat \ {0} /\ MaxErrors \in Nat
  BY ManagerAssumption
<1>1. CASE Start
  BY <1>1, <1>t, <1>m DEF Start, TypeOK, workers, api
<1>2. CASE StartWorkers
  <2> DEFINE t == Head(todo).type
  <2>1. t \in AllTypes /\ Head(todo).count \in 0..MaxCount /\ Tail(todo) \in Seq(Row)
    BY <1>2, HeadIsRow DEF StartWorkers
  <2>2. slice' \in [AllTypes -> -1..MaxCount]
    BY <1>2, <1>m, <2>1 DEF StartWorkers, TypeOK
  <2>3. stray[t] + (IF slice[t] > 0 THEN slice[t] ELSE 0) \in Nat
    BY <1>m, <2>1 DEF TypeOK
  <2>4. stray' \in [AllTypes -> Nat]
    BY <1>2, <2>1, <2>3 DEF StartWorkers, TypeOK
  <2> QED BY <1>2, <1>t, <2>1, <2>2, <2>4 DEF StartWorkers, TypeOK, api, bounds
<1>3. CASE Sleep \/ ListWorkers
  BY <1>3, <1>t DEF Sleep, ListWorkers, TypeOK, workers, api, bounds
<1>4. CASE CountsMatch
  BY <1>4, <1>t, HeadIsRow DEF CountsMatch, NextRow, TypeOK, workers, api, bounds
<1>5. CASE RemoveWorker
  <2> DEFINE t == Head(todo).type
  <2>1. t \in AllTypes /\ Head(todo).count \in 0..MaxCount
    BY <1>5, HeadIsRow DEF RemoveWorker
  <2>2. slice[t] - 1 \in -1..MaxCount
    BY <1>5, <1>m, <2>1 DEF RemoveWorker, Current, TypeOK
  <2>3. slice' \in [AllTypes -> -1..MaxCount] /\ dying' \in [AllTypes -> Nat]
    BY <1>5, <2>1, <2>2, OneMoreCounts DEF RemoveWorker, TypeOK
  <2> QED BY <1>5, <1>t, <2>3 DEF RemoveWorker, SameRow, TypeOK, api, bounds
<1>6. CASE AddWorker
  <2> DEFINE t == Head(todo).type
  <2>1. t \in AllTypes /\ Head(todo).count \in 0..MaxCount /\ Tail(todo) \in Seq(Row)
    BY <1>6, HeadIsRow DEF AddWorker
  <2>2. slice[t] # -1 => slice[t] + 1 \in -1..MaxCount
    BY <1>6, <1>m, <2>1 DEF AddWorker, Current, TypeOK
  <2>3. slice' \in [AllTypes -> -1..MaxCount] /\ stray' \in [AllTypes -> Nat]
    <3>1. /\ slice \in [AllTypes -> -1..MaxCount] /\ stray \in [AllTypes -> Nat]
          /\ OneMore(stray, t) \in [AllTypes -> Nat]
      BY <2>1, OneMoreCounts DEF TypeOK
    <3>2. \/ slice[t] # -1 /\ slice' = [slice EXCEPT ![t] = @ + 1] /\ stray' = stray
          \/ slice' = slice /\ stray' = OneMore(stray, t)
      BY <1>6 DEF AddWorker
    <3>3. slice[t] # -1 => [slice EXCEPT ![t] = @ + 1] \in [AllTypes -> -1..MaxCount]
      BY <2>2, <3>1
    <3> QED BY <3>1, <3>2, <3>3
  <2>4. /\ UNCHANGED <<manager, dying, api, bounds>>
        /\ todo' = todo \/ todo' = Tail(todo)
    BY <1>6 DEF AddWorker, NextRow, SameRow
  <2> QED BY <1>t, <2>1, <2>3, <2>4 DEF TypeOK, api, bounds
<1>7. CASE NewWorkerFails
  <2>1. errors' \in 0..MaxErrors
    BY <1>7, <1>m DEF NewWorkerFails, TypeOK
  <2>2. todo' \in Seq(Row) /\ manager' \in {"down", "update"}
    <3>1. \/ todo' = Tail(todo) /\ manager' = "update"
          \/ todo' = <<>> /\ manager' = "down"
      BY <1>7 DEF NewWorkerFails
    <3>2. Tail(todo) \in Seq(Row)
      BY <1>7, HeadIsRow DEF NewWorkerFails
    <3>3. <<>> \in Seq(Row)
      OBVIOUS
    <3> QED BY <3>1, <3>2, <3>3
  <2>3. \/ UNCHANGED workers
        \/ slice' = NoSlice /\ stray' = None /\ dying' = None
    BY <1>7 DEF NewWorkerFails
  <2>4. /\ slice' \in [AllTypes -> -1..MaxCount]
        /\ stray' \in [AllTypes -> Nat] /\ dying' \in [AllTypes -> Nat]
    <3>1. NoSlice \in [AllTypes -> -1..MaxCount] /\ None \in [AllTypes -> Nat]
      BY <1>m DEF NoSlice, None
    <3> QED BY <2>3, <3>1 DEF workers, TypeOK
  <2>5. UNCHANGED <<api, edits, starts>>
    BY <1>7 DEF NewWorkerFails
  <2> QED BY <1>t, <2>1, <2>2, <2>4, <2>5 DEF TypeOK, api
<1>8. CASE Crash
  BY <1>8, <1>t, <1>m DEF Crash, TypeOK, NoSlice, None, bounds
<1>9. CASE EditTable
  BY <1>9, <1>t, <1>m DEF EditTable, TypeOK, workers, api
<1>10. ASSUME NEW t \in AllTypes, WorkerEnds(t)
       PROVE  TypeOK'
  BY <1>10, <1>t DEF WorkerEnds, TypeOK, api, bounds
<1>11. ASSUME NEW c \in Callers, NEW t \in Types, CallUpdate(c, t) \/ UpdateWorker(c, t)
       PROVE  TypeOK'
  BY <1>11, <1>t DEF CallUpdate, UpdateWorker, TypeOK, AllTypes, workers, bounds
<1>12. CASE UNCHANGED vars
  BY <1>12 DEF vars, TypeOK, workers, api, bounds
<1> QED
  BY <1>1, <1>2, <1>3, <1>4, <1>5, <1>6, <1>7, <1>8, <1>9, <1>10, <1>11, <1>12
  DEF Next, Manage

\* The program starts in a state of these types.
LEMMA TypeInit ==
  ASSUME Init
  PROVE  TypeOK
BY OneRowEachIsTable, ManagerAssumption DEF Init, TypeOK, NoSlice, None

-----------------------------------------------------------------------------
(* The workers that the manager has lost. *)

\* A start begins with no worker, and with all the rows of the table.
LEMMA StartKeeps ==
  ASSUME IInv, Start, TypeOK'
  PROVE  (DownInv /\ StartInv /\ EveryWorkerTracked)'
<1>1. slice' = NoSlice /\ stray' = None /\ todo' = table' /\ manager' = "init"
  BY DEF IInv, Start, DownInv, workers
<1>2. Reached(0)'
  BY <1>1 DEF Reached, NoSlice, TypeOK, IInv
<1> QED BY <1>1, <1>2 DEF DownInv, StartInv, EveryWorkerTracked, None

\* InitializeWorkers goes on to the next row: a type with workers is met again.
LEMMA StartWorkersKeeps ==
  ASSUME IInv, StartWorkers
  PROVE  (DownInv /\ StartInv /\ EveryWorkerTracked)'
<1> DEFINE t == Head(todo).type
<1>1. PICK k \in Nat : Reached(k)
  BY DEF IInv, StartInv, StartWorkers
<1>2. /\ t \in AllTypes /\ t = table[k + 1].type
      /\ k + 1 <= Len(table) /\ Len(table) \in Nat
  <2>1. /\ 1 \in 1..Len(todo) /\ Len(todo) \in Nat /\ Len(table) \in Nat
        /\ Head(todo) = todo[1] /\ t \in AllTypes
    BY HeadIsRow DEF StartWorkers, IInv, TypeOK
  <2> QED BY <1>1, <2>1 DEF Reached
<1>3. /\ slice' = [slice EXCEPT ![t] = Head(todo).count]
      /\ stray' = [stray EXCEPT ![t] = @ + (IF slice[t] > 0 THEN slice[t] ELSE 0)]
      /\ todo' = Tail(todo) /\ UNCHANGED <<table, manager>> /\ manager = "init"
  BY DEF StartWorkers
<1>4. Reached(k + 1)'
  <2>1. k + 1 + Len(todo') <= Len(table')
    BY <1>1, <1>3, HeadIsRow DEF Reached, StartWorkers, IInv
  <2>2. \A i \in 1..Len(todo') : todo'[i].type = table'[k + 1 + i].type
    <3>1. \A i \in 1..Len(Tail(todo)) : i + 1 \in 1..Len(todo) /\ Tail(todo)[i] = todo[i + 1]
      BY HeadIsRow DEF StartWorkers, IInv
    <3>2. \A i \in 1..Len(Tail(todo)) : k + (i + 1) = k + 1 + i
      BY HeadIsRow DEF StartWorkers, IInv
    <3> QED BY <1>1, <1>3, <3>1, <3>2 DEF Reached
  <2>3. \A x \in AllTypes : slice'[x] # -1 => \E i \in 1..(k + 1) : table'[i].type = x
    BY <1>1, <1>2, <1>3 DEF Reached, IInv, TypeOK
  <2> QED BY <2>1, <2>2, <2>3 DEF Reached
<1>5. slice[t] > 0 => Doubled(t)
  <2> SUFFICES ASSUME slice[t] > 0
               PROVE  Doubled(t)
    OBVIOUS
  <2>1. PICK i \in 1..k : table[i].type = t
    BY <1>1, <1>2 DEF Reached
  <2>2. i \in DOMAIN table /\ k + 1 \in DOMAIN table /\ i # k + 1
    BY <1>2 DEF IInv, TypeOK
  <2> QED BY <1>2, <2>1, <2>2 DEF Doubled
<1>6. \A x \in AllTypes : stray'[x] > 0 => Doubled(x)
  BY <1>2, <1>3, <1>5 DEF IInv, StartInv, TypeOK
<1>7. \A x \in AllTypes : Doubled(x)' <=> Doubled(x)
  BY <1>3 DEF Doubled
<1> QED BY <1>3, <1>4, <1>6, <1>7 DEF DownInv, StartInv, EveryWorkerTracked

\* The manager takes a worker off a slice, which stays one, or starts one that
\* is in no slice only if there is none for its type.
LEMMA UpdatesKeep ==
  ASSUME IInv, RemoveWorker \/ AddWorker
  PROVE  (DownInv /\ StartInv /\ EveryWorkerTracked)'
<1> DEFINE t == Head(todo).type
<1>1. /\ t \in AllTypes /\ Head(todo).count \in Nat
      /\ manager' = "update" /\ table' = table
  BY HeadIsRow, ManagerAssumption
  DEF RemoveWorker, AddWorker, NextRow, SameRow, IInv
<1>2. \A x \in AllTypes : stray'[x] > 0 => (stray[x] > 0 \/ slice[x] = -1)
  BY <1>1 DEF RemoveWorker, AddWorker, OneMore, IInv, TypeOK
<1>3. \A x \in AllTypes : slice[x] = -1 => slice'[x] = -1
  BY <1>1 DEF RemoveWorker, AddWorker, Current, IInv, TypeOK
<1>4. \A x \in AllTypes : Doubled(x)' <=> Doubled(x)
  BY <1>1 DEF Doubled
<1> QED
  BY <1>1, <1>2, <1>3, <1>4 DEF DownInv, StartInv, EveryWorkerTracked, IInv

\* The table changes under the manager.
LEMMA EditKeeps ==
  ASSUME IInv, EditTable, table' \in Seq(Row), TableGrows
  PROVE  (DownInv /\ StartInv /\ EveryWorkerTracked)'
<1>1. UNCHANGED <<manager, todo, slice, stray>>
  BY DEF EditTable, workers
<1>2. \A t \in AllTypes : Doubled(t) => Doubled(t)'
  BY DoubledStays DEF IInv, TypeOK
<1>3. ASSUME NEW k \in Nat, Reached(k)
      PROVE  Reached(k)'
  <2>1. Len(table) \in Nat /\ Len(table') \in Nat /\ Len(todo) \in Nat
    BY DEF IInv, TypeOK
  <2>2. \A i \in 1..Len(todo) : k + i \in 1..Len(table)
    BY <1>3, <2>1 DEF Reached
  <2>3. \A i \in 1..k : i \in 1..Len(table)
    BY <1>3, <2>1 DEF Reached
  <2> QED BY <1>1, <1>3, <2>1, <2>2, <2>3 DEF Reached, TableGrows
<1> QED BY <1>1, <1>2, <1>3 DEF IInv, DownInv, StartInv, EveryWorkerTracked

LEMMA IInvNext ==
  ASSUME IInv, [Next]_vars
  PROVE  IInv'
<1>1. TypeOK' /\ table' \in Seq(Row) /\ TableGrows
  BY TypeNext, TableKeeps DEF IInv
<1> SUFFICES (DownInv /\ StartInv /\ EveryWorkerTracked)'
  BY <1>1 DEF IInv
<1>2. CASE Start
  BY <1>1, <1>2, StartKeeps
<1>3. CASE StartWorkers
  BY <1>3, StartWorkersKeeps
<1>4. CASE RemoveWorker \/ AddWorker
  BY <1>4, UpdatesKeep
<1>5. CASE EditTable
  BY <1>1, <1>5, EditKeeps
<1>6. ASSUME manager' = "down", slice' = NoSlice, stray' = None
      PROVE  (DownInv /\ StartInv /\ EveryWorkerTracked)'
  BY <1>6 DEF DownInv, StartInv, EveryWorkerTracked, None
<1>7. ASSUME UNCHANGED <<table, slice, stray>>, manager' \in {"poll", "update"}
      PROVE  (DownInv /\ StartInv /\ EveryWorkerTracked)'
  BY <1>7 DEF IInv, DownInv, StartInv, EveryWorkerTracked, Doubled
<1>8. ASSUME UNCHANGED <<table, manager, todo, slice, stray>>
      PROVE  (DownInv /\ StartInv /\ EveryWorkerTracked)'
  BY <1>8 DEF IInv, DownInv, StartInv, EveryWorkerTracked, Doubled, Reached
<1>9. CASE NewWorkerFails
  BY <1>6, <1>7, <1>9 DEF NewWorkerFails, workers
<1>10. CASE Crash
  BY <1>6, <1>10 DEF Crash
<1>11. CASE Sleep \/ ListWorkers \/ CountsMatch
  BY <1>7, <1>11 DEF Sleep, ListWorkers, CountsMatch, NextRow, workers
<1>12. CASE UNCHANGED vars
  BY <1>8, <1>12 DEF vars, workers
<1>13. CASE \E t \in AllTypes : WorkerEnds(t)
  BY <1>8, <1>13 DEF WorkerEnds
<1>14. CASE \E c \in Callers, t \in Types : CallUpdate(c, t) \/ UpdateWorker(c, t)
  BY <1>8, <1>14 DEF CallUpdate, UpdateWorker, workers
<1> QED
  BY <1>2, <1>3, <1>4, <1>5, <1>9, <1>10, <1>11, <1>12, <1>13, <1>14 DEF Next, Manage

\* The inductive invariant.
LEMMA Invariance == Spec => []IInv
<1>1. Init => IInv
  BY TypeInit DEF Init, IInv, DownInv, StartInv, EveryWorkerTracked, None
<1>2. IInv /\ [Next]_vars => IInv'
  BY IInvNext
<1> QED BY <1>1, <1>2, PTL DEF Spec

\* Every variable keeps its type: counts of workers stay within what the table
\* may ask for.
THEOREM TypeCorrect == Spec => []TypeOK
<1>1. IInv => TypeOK
  BY DEF IInv
<1> QED BY <1>1, Invariance, PTL

\* The manager keeps every worker it runs in a slice (worker_manager.go:52),
\* whatever the order of edits, polls, failures and restarts, except those of
\* a type whose row came after the start, and those of a doubled row.
THEOREM WorkersAreTracked == Spec => []EveryWorkerTracked
<1>1. IInv => EveryWorkerTracked
  BY DEF IInv
<1> QED BY <1>1, Invariance, PTL
=============================================================================
