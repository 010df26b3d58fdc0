------------------------- MODULE DefinitionsProofs -------------------------
(***************************************************************************)
(* Aliases stay unique whatever requests do, and a partial update keeps    *)
(* the other columns if no other update is under way: for any number of    *)
(* requests and any values.                                                *)
(***************************************************************************)
EXTENDS Definitions, TLAPS

\* A create or an update under way has a whole row to write.
RowsAreWhole == \A r \in Requests : req[r].pc \in {"insert", "get", "write"} => req[r].row \in Row

IInv == TypeOK /\ RowsAreWhole /\ AliasesUnique

\* An update put over a whole row is a whole row.
LEMMA UpdateWithRow ==
  ASSUME NEW row \in Row, NEW updates \in Body
  PROVE  UpdateWith(row, updates) \in Row
BY DEF Row, Body, UpdateWith, Over

\* What a query returns of a definition is a whole row.
LEMMA GetDefinitionRow ==
  ASSUME TypeOK, NEW d \in Requests, defs[d] # None
  PROVE  GetDefinition(d) \in Row
BY DefinitionsAssumption DEF TypeOK, GetDefinition, Row, Body

\* Every request only moves along its own steps.
LEMMA GotoKeeps ==
  ASSUME IInv, NEW r \in Requests, NEW there \in {"done", "failed"}, Goto(r, there),
         UNCHANGED <<defs, asked>>
  PROVE  IInv'
<1>1. TypeOK'
  BY DEF IInv, TypeOK, Goto, RequestStates
<1>2. RowsAreWhole' /\ AliasesUnique'
  BY DEF IInv, TypeOK, RowsAreWhole, AliasesUnique, Goto
<1> QED  BY <1>1, <1>2 DEF IInv

\* A whole row saved under an alias nobody else has keeps the table in order.
LEMMA SaveKeeps ==
  ASSUME IInv, NEW r \in Requests, NEW d \in Requests, req[r].row \in Row,
         AliasFree(req[r].row.alias, d), Goto(r, "done"),
         defs' = [defs EXCEPT ![d] = req[r].row], UNCHANGED asked
  PROVE  IInv'
<1>1. TypeOK'
  BY DEF IInv, TypeOK, Goto, RequestStates
<1>2. RowsAreWhole'
  BY DEF IInv, TypeOK, RowsAreWhole, Goto
<1>3. AliasesUnique'
  BY DEF IInv, TypeOK, AliasesUnique, AliasFree
<1> QED  BY <1>1, <1>2, <1>3 DEF IInv

\* Every step of a request keeps the invariant.
LEMMA IInvStep ==
  ASSUME IInv, NEW r \in Requests, Handle(r)
  PROVE  IInv'
<1> USE DefinitionsAssumption
<1>1. CASE CheckAlias(r)
  <2> PICK row \in Row, there \in {"failed", "insert"} :
         /\ asked' = [asked EXCEPT ![r] = row]
         /\ req' = [req EXCEPT ![r] = [pc |-> there, id |-> r, row |-> row]]
    BY <1>1 DEF CheckAlias
  <2>1. row \in Body /\ defs' = defs
    BY <1>1 DEF CheckAlias, Row
  <2>2. TypeOK'
    BY <2>1 DEF IInv, TypeOK, RequestStates
  <2>3. RowsAreWhole' /\ AliasesUnique'
    BY <2>1 DEF IInv, TypeOK, RowsAreWhole, AliasesUnique
  <2> QED  BY <2>2, <2>3 DEF IInv
<1>2. CASE CreateDefinition(r)
  <2>1. req[r].row \in Row
    BY <1>2 DEF CreateDefinition, IInv, RowsAreWhole
  <2> QED  BY <1>2, <2>1, SaveKeeps, GotoKeeps DEF CreateDefinition
<1>3. CASE Update(r)
  <2> PICK d \in Requests, updates \in Body :
         /\ defs[d] # None
         /\ asked' = [asked EXCEPT ![r] = updates]
         /\ req' = [req EXCEPT ![r] =
                      [pc |-> "get", id |-> d, row |-> UpdateWith(GetDefinition(d), updates)]]
    BY <1>3 DEF Update
  <2>1. UpdateWith(GetDefinition(d), updates) \in Row /\ defs' = defs
    BY <1>3, GetDefinitionRow, UpdateWithRow DEF Update, IInv
  <2>2. TypeOK'
    BY <2>1 DEF IInv, TypeOK, RequestStates, Row
  <2>3. RowsAreWhole' /\ AliasesUnique'
    BY <2>1 DEF IInv, TypeOK, RowsAreWhole, AliasesUnique
  <2> QED  BY <2>2, <2>3 DEF IInv
<1>4. CASE UpdateAgain(r)
  <2>1. CASE defs[req[r].id] = None
    BY <1>4, <2>1, GotoKeeps DEF UpdateAgain
  <2>2. CASE defs[req[r].id] # None
    <3> DEFINE row == UpdateWith(GetDefinition(req[r].id), req[r].row)
    <3>1. row \in Row
      BY <1>4, <2>2, GetDefinitionRow, UpdateWithRow
         DEF UpdateAgain, IInv, TypeOK, RowsAreWhole, Row
    <3>2. /\ req' = [req EXCEPT ![r].pc = "write", ![r].row = row]
          /\ UNCHANGED <<defs, asked>>
      BY <1>4, <2>2 DEF UpdateAgain
    <3> HIDE DEF row
    <3>3. TypeOK'
      BY <3>1, <3>2 DEF IInv, TypeOK, RequestStates, Row
    <3>4. RowsAreWhole' /\ AliasesUnique'
      BY <3>1, <3>2 DEF IInv, TypeOK, RowsAreWhole, AliasesUnique
    <3> QED  BY <3>3, <3>4 DEF IInv
  <2> QED  BY <2>1, <2>2
<1>5. CASE Write(r)
  <2>1. req[r].row \in Row /\ req[r].id \in Requests
    BY <1>5 DEF Write, IInv, TypeOK, RowsAreWhole
  <2>2. CASE defs[req[r].id] # None /\ AliasFree(req[r].row.alias, req[r].id)
    BY <1>5, <2>1, <2>2, SaveKeeps DEF Write, Writable
  <2>3. CASE ~(defs[req[r].id] # None /\ AliasFree(req[r].row.alias, req[r].id))
    <3>1. defs' = defs /\ asked' = asked /\ \E there \in {"done", "failed"} : Goto(r, there)
      BY <1>5, <2>1, <2>3 DEF Write, Writable, IInv, TypeOK
    <3> QED  BY <3>1, GotoKeeps
  <2> QED  BY <2>2, <2>3
<1>6. CASE DeleteDefinition(r)
  <2> PICK d \in Requests : defs' = [defs EXCEPT ![d] = None]
    BY <1>6 DEF DeleteDefinition
  <2>1. Goto(r, "done") /\ asked' = asked
    BY <1>6 DEF DeleteDefinition
  <2>2. TypeOK'
    BY <2>1 DEF IInv, TypeOK, Goto, RequestStates
  <2>3. RowsAreWhole' /\ AliasesUnique'
    BY <2>1 DEF IInv, TypeOK, RowsAreWhole, AliasesUnique, Goto
  <2> QED  BY <2>2, <2>3 DEF IInv
<1>7. CASE CallFails(r)
  BY <1>7, GotoKeeps DEF CallFails
<1> QED  BY <1>1, <1>2, <1>3, <1>4, <1>5, <1>6, <1>7 DEF Handle

\* The invariant of the definitions' table and of the requests under way.
THEOREM Invariance == Spec => []IInv
<1>1. Init => IInv
  BY DefinitionsAssumption
     DEF Init, IInv, TypeOK, RowsAreWhole, AliasesUnique, RequestStates, Body, Nothing
<1>2. IInv /\ [Next]_vars => IInv'
  <2>1. IInv /\ UNCHANGED vars => IInv'
    BY DEF IInv, TypeOK, RowsAreWhole, AliasesUnique, vars
  <2> QED  BY <2>1, IInvStep DEF Next
<1> QED  BY <1>1, <1>2, PTL DEF Spec

\* No two definitions share an alias: the constraint of the table makes the
\* check of aliasExists, which another request may outrun, good.
THEOREM AliasesStayUnique == Spec => []AliasesUnique
<1>1. IInv => AliasesUnique
  BY DEF IInv
<1> QED  BY <1>1, Invariance, PTL

\* The request of a definition that is in the table is over.
CreatorIsDone == \A d \in Requests : defs[d] # None => req[d].pc \in {"done", "failed"}

\* An update under way is of a definition whose request is over.
UpdatesAreOfKnown ==
  \A r \in Requests : req[r].pc \in {"get", "write"} =>
    r \in Updaters /\ req[req[r].id].pc \in {"done", "failed"}

\* An update under way is to write what is in the table with the columns it
\* names over it.
UpdatesAreFresh ==
  \A r \in Requests : req[r].pc \in {"get", "write"} /\ defs[req[r].id] # None =>
    req[r].row = UpdateWith(GetDefinition(req[r].id), asked[r])

SerialInv == IInv /\ CreatorIsDone /\ UpdatesAreOfKnown /\ UpdatesAreFresh

\* An update put over the same row again changes nothing.
LEMMA UpdateTwice ==
  ASSUME NEW row, NEW updates
  PROVE  UpdateWith(row, UpdateWith(row, updates)) = UpdateWith(row, updates)
BY DEF UpdateWith, Over

\* Every step keeps it, if a single request is an update.
LEMMA SerialStep ==
  ASSUME SerialInv, IInv', NEW u \in Requests, Updaters = {u}, NEW r \in Requests, Handle(r)
  PROVE  SerialInv'
<1> USE DefinitionsAssumption DEF SerialInv, IInv, TypeOK
<1>1. CASE CheckAlias(r)
  <2> PICK row \in Row, there \in {"failed", "insert"} :
         /\ asked' = [asked EXCEPT ![r] = row]
         /\ req' = [req EXCEPT ![r] = [pc |-> there, id |-> r, row |-> row]]
    BY <1>1 DEF CheckAlias
  <2>1. defs' = defs /\ req[r].pc = "new"
    BY <1>1 DEF CheckAlias
  <2>2. CreatorIsDone' /\ UpdatesAreOfKnown'
    BY <2>1 DEF CreatorIsDone, UpdatesAreOfKnown
  <2>3. UpdatesAreFresh'
    BY <2>1 DEF UpdatesAreFresh, GetDefinition
  <2> QED  BY <2>2, <2>3
<1>2. CASE CreateDefinition(r)
  <2>1. /\ req[r].pc = "insert" /\ asked' = asked
        /\ \E there \in {"done", "failed"} : Goto(r, there)
        /\ defs' = defs \/ (Goto(r, "done") /\ defs' = [defs EXCEPT ![r] = req[r].row])
    BY <1>2 DEF CreateDefinition
  <2>2. CreatorIsDone' /\ UpdatesAreOfKnown'
    BY <2>1 DEF CreatorIsDone, UpdatesAreOfKnown, Goto
  <2>3. UpdatesAreFresh'
    BY <2>1 DEF UpdatesAreFresh, UpdatesAreOfKnown, GetDefinition, Goto
  <2> QED  BY <2>2, <2>3
<1>3. CASE Update(r)
  <2> PICK d \in Requests, updates \in Body :
         /\ defs[d] # None
         /\ asked' = [asked EXCEPT ![r] = updates]
         /\ req' = [req EXCEPT ![r] =
                      [pc |-> "get", id |-> d, row |-> UpdateWith(GetDefinition(d), updates)]]
    BY <1>3 DEF Update
  <2>1. defs' = defs /\ req[r].pc = "new" /\ r \in Updaters
    BY <1>3 DEF Update
  <2>2. CreatorIsDone' /\ UpdatesAreOfKnown'
    BY <2>1 DEF CreatorIsDone, UpdatesAreOfKnown
  <2>3. UpdatesAreFresh'
    BY <2>1 DEF UpdatesAreFresh, GetDefinition
  <2> QED  BY <2>2, <2>3
<1>4. CASE UpdateAgain(r)
  <2>1. req[r].pc = "get" /\ UNCHANGED <<defs, asked>>
    BY <1>4 DEF UpdateAgain
  <2>2. CASE defs[req[r].id] = None
    <3>1. Goto(r, "failed")
      BY <1>4, <2>2 DEF UpdateAgain
    <3>2. CreatorIsDone' /\ UpdatesAreOfKnown'
      BY <2>1, <3>1 DEF Goto, CreatorIsDone, UpdatesAreOfKnown
    <3>3. UpdatesAreFresh'
      BY <2>1, <3>1 DEF Goto, UpdatesAreFresh, GetDefinition
    <3> QED  BY <3>2, <3>3
  <2>3. CASE defs[req[r].id] # None
    <3>1. req' = [req EXCEPT ![r].pc = "write",
                             ![r].row = UpdateWith(GetDefinition(req[r].id), req[r].row)]
      BY <1>4, <2>3 DEF UpdateAgain
    <3>2. UpdateWith(GetDefinition(req[r].id), req[r].row) = req[r].row
      <4>1. req[r].row = UpdateWith(GetDefinition(req[r].id), asked[r])
        BY <2>1, <2>3 DEF UpdatesAreFresh
      <4> QED  BY <4>1, UpdateTwice
    <3>3. CreatorIsDone' /\ UpdatesAreOfKnown'
      BY <2>1, <3>1 DEF CreatorIsDone, UpdatesAreOfKnown
    <3>4. UpdatesAreFresh'
      BY <2>1, <3>1, <3>2 DEF UpdatesAreFresh, GetDefinition
    <3> QED  BY <3>3, <3>4
  <2> QED  BY <2>2, <2>3
<1>5. CASE Write(r)
  <2>1. /\ req[r].pc = "write" /\ asked' = asked
        /\ \E there \in {"done", "failed"} : Goto(r, there)
        /\ defs' = defs \/ (defs[req[r].id] # None /\ defs' = [defs EXCEPT ![req[r].id] = req[r].row])
    BY <1>5 DEF Write, Writable
  <2>2. CreatorIsDone' /\ UpdatesAreOfKnown'
    BY <2>1 DEF CreatorIsDone, UpdatesAreOfKnown, Goto
  <2>3. UpdatesAreFresh'
    BY <2>1 DEF UpdatesAreFresh, UpdatesAreOfKnown, GetDefinition, Goto
  <2> QED  BY <2>2, <2>3
<1>6. CASE DeleteDefinition(r)
  <2>1. /\ req[r].pc = "new" /\ asked' = asked /\ Goto(r, "done")
        /\ \E d \in Requests : defs' = [defs EXCEPT ![d] = None]
    BY <1>6 DEF DeleteDefinition
  <2>2. CreatorIsDone' /\ UpdatesAreOfKnown'
    BY <2>1 DEF CreatorIsDone, UpdatesAreOfKnown, Goto
  <2>3. UpdatesAreFresh'
    BY <2>1 DEF UpdatesAreFresh, GetDefinition, Goto
  <2> QED  BY <2>2, <2>3
<1>7. CASE CallFails(r)
  <2>1. Goto(r, "failed") /\ UNCHANGED <<defs, asked>>
    BY <1>7 DEF CallFails
  <2>2. CreatorIsDone' /\ UpdatesAreOfKnown'
    BY <2>1 DEF Goto, CreatorIsDone, UpdatesAreOfKnown
  <2>3. UpdatesAreFresh'
    BY <2>1 DEF Goto, UpdatesAreFresh, GetDefinition
  <2> QED  BY <2>2, <2>3
<1> QED  BY <1>1, <1>2, <1>3, <1>4, <1>5, <1>6, <1>7 DEF Handle

\* With one update at a time, partial updates are partial: the condition under
\* which UpdateDefinition keeps its promise.
THEOREM SerialUpdatesKeepOthers ==
  ASSUME NEW u \in Requests, Updaters = {u}
  PROVE  Spec => OthersKept
<1> DEFINE Kept(r) ==
      Updated(r) /\ defs[req[r].id] # None =>
        LET old == defs[req[r].id]
            new == defs'[req[r].id]
        IN  /\ asked[r].alias = None => new.alias = old.alias
            /\ asked[r].image = None => new.image = old.image
            /\ asked[r].memory = None => new.memory = old.memory
<1>1. Init => SerialInv
  BY DefinitionsAssumption
     DEF Init, SerialInv, IInv, TypeOK, RowsAreWhole, AliasesUnique, RequestStates, Body, Nothing,
         CreatorIsDone, UpdatesAreOfKnown, UpdatesAreFresh
<1>2. SerialInv /\ IInv' /\ [Next]_vars => SerialInv'
  <2>1. SerialInv /\ UNCHANGED vars => SerialInv'
    BY DEF SerialInv, IInv, TypeOK, RowsAreWhole, AliasesUnique, CreatorIsDone,
           UpdatesAreOfKnown, UpdatesAreFresh, GetDefinition, vars
  <2> QED  BY <2>1, SerialStep DEF Next
<1>3. ASSUME SerialInv, Next, NEW r \in Requests, Updated(r), defs[req[r].id] # None
      PROVE  Kept(r)
  <2>1. PICK q \in Requests : Handle(q)
    BY <1>3 DEF Next
  <2>2. q = r /\ Write(r)
    BY <1>3, <2>1 DEF SerialInv, IInv, TypeOK, Updated, Handle, CheckAlias, CreateDefinition, Update,
                      UpdateAgain, Write, DeleteDefinition, CallFails, Goto
  <2>3. defs[req[r].id] # None /\ defs' = [defs EXCEPT ![req[r].id] = req[r].row]
    BY <1>3, <2>2 DEF SerialInv, IInv, TypeOK, Updated, Write, Writable, Goto
  <2>4. req[r].row = UpdateWith(GetDefinition(req[r].id), asked[r]) /\ req[r].id \in Requests
    BY <1>3, <2>2, <2>3 DEF SerialInv, IInv, TypeOK, UpdatesAreFresh, Write
  <2>5. defs'[req[r].id] = UpdateWith(GetDefinition(req[r].id), asked[r])
    BY <1>3, <2>3, <2>4 DEF SerialInv, IInv, TypeOK
  <2> QED  BY <2>5 DEF UpdateWith, Over, GetDefinition
<1>4. SerialInv /\ [Next]_vars => [\A r \in Requests : Kept(r)]_vars
  BY <1>3
<1> QED  BY <1>1, <1>2, <1>4, Invariance, PTL DEF Spec, OthersKept

\* An update under way is to write an empty list of tags only if it was asked to:
\* what queries return as the tags of a definition is the blank one.
TagsAreAsked ==
  \A r \in Requests : req[r].pc \in {"get", "write"} /\ req[r].row.tags = NoTags =>
    asked[r].tags = NoTags

LEMMA UpdateTags ==
  ASSUME NEW row, NEW updates, row.tags = Blank, UpdateWith(row, updates).tags = NoTags
  PROVE  updates.tags = NoTags
BY DefinitionsAssumption DEF UpdateWith, Over

\* Every request keeps it.
LEMMA TagsStep ==
  ASSUME IInv, TagsAreAsked, NEW r \in Requests, Handle(r)
  PROVE  TagsAreAsked'
<1> USE DEF IInv, TypeOK
<1>1. \A d \in Requests : defs[d] # None => GetDefinition(d).tags = Blank
  BY DEF GetDefinition, Row, Body
<1>2. CASE Update(r)
  <2> PICK d \in Requests, updates \in Body :
         /\ defs[d] # None
         /\ asked' = [asked EXCEPT ![r] = updates]
         /\ req' = [req EXCEPT ![r] =
                      [pc |-> "get", id |-> d, row |-> UpdateWith(GetDefinition(d), updates)]]
    BY <1>2 DEF Update
  <2>1. UpdateWith(GetDefinition(d), updates).tags = NoTags => updates.tags = NoTags
    BY <1>1, UpdateTags
  <2> QED  BY <2>1 DEF TagsAreAsked
<1>3. CASE UpdateAgain(r)
  <2>1. /\ req[r].pc = "get" /\ asked' = asked
        /\ \/ Goto(r, "failed")
           \/ /\ defs[req[r].id] # None
              /\ req' = [req EXCEPT ![r].pc = "write",
                                    ![r].row = UpdateWith(GetDefinition(req[r].id), req[r].row)]
    BY <1>3 DEF UpdateAgain
  <2>2. CASE Goto(r, "failed")
    BY <2>1, <2>2 DEF Goto, TagsAreAsked
  <2>3. CASE ~Goto(r, "failed")
    <3>1. UpdateWith(GetDefinition(req[r].id), req[r].row).tags = NoTags => req[r].row.tags = NoTags
      BY <1>1, <2>1, <2>3, UpdateTags
    <3> QED  BY <2>1, <2>3, <3>1 DEF TagsAreAsked
  <2> QED  BY <2>2, <2>3
<1>4. CASE CheckAlias(r)
  BY <1>4 DEF CheckAlias, TagsAreAsked
<1>5. CASE CreateDefinition(r) \/ Write(r) \/ DeleteDefinition(r) \/ CallFails(r)
  <2>1. asked' = asked /\ \E there \in {"done", "failed"} : Goto(r, there)
    BY <1>5 DEF CreateDefinition, Write, DeleteDefinition, CallFails
  <2> QED  BY <2>1 DEF Goto, TagsAreAsked
<1> QED  BY <1>2, <1>3, <1>4, <1>5 DEF Handle

\* An update answered with success is the transaction that wrote the row.
LEMMA UpdatedWrites ==
  ASSUME TypeOK, Next, NEW r \in Requests, Updated(r)
  PROVE  Write(r) /\ Writable(req[r].row, req[r].id)
<1>1. PICK q \in Requests : Handle(q)
  BY DEF Next
<1>2. q = r /\ Write(r)
  BY <1>1
  DEF TypeOK, Updated, Handle, CheckAlias, CreateDefinition, Update, UpdateAgain, Write,
      DeleteDefinition, CallFails, Goto
<1>3. Writable(req[r].row, req[r].id)
  BY <1>2 DEF TypeOK, Updated, Write, Goto
<1> QED  BY <1>2, <1>3

\* A definition that was deleted after an update read it, by whichever request,
\* does not come back, and the update is not answered with success, unless it
\* was to replace the tags by none.
THEOREM DeletedStaysDeleted == Spec => DeletedIsNotUpdated
<1> DEFINE Gone(r) ==
      Updated(r) /\ defs[req[r].id] = None => defs'[req[r].id] = None /\ asked[r].tags = NoTags
<1>1. ASSUME IInv, TagsAreAsked, Next, NEW r \in Requests, Updated(r), defs[req[r].id] = None
      PROVE  defs'[req[r].id] = None /\ asked[r].tags = NoTags
  <2>1. Write(r) /\ req[r].row.tags = NoTags /\ req[r].id \in Requests
    BY <1>1, UpdatedWrites DEF Writable, IInv, TypeOK
  <2>2. asked[r].tags = NoTags
    BY <1>1, <2>1 DEF TagsAreAsked, Updated
  <2>3. defs'[req[r].id] = None
    BY <1>1, <2>1 DEF Write, IInv, TypeOK
  <2> QED  BY <2>2, <2>3
<1>2. IInv /\ TagsAreAsked /\ [Next]_vars => TagsAreAsked' /\ [\A r \in Requests : Gone(r)]_vars
  <2>1. IInv /\ TagsAreAsked /\ Next => \A r \in Requests : Gone(r)
    BY <1>1
  <2>2. IInv /\ TagsAreAsked /\ UNCHANGED vars => TagsAreAsked'
    BY DEF TagsAreAsked, vars
  <2> QED  BY <2>1, <2>2, TagsStep DEF Next
<1>3. Init => TagsAreAsked
  BY DEF Init, TagsAreAsked
<1> QED  BY <1>2, <1>3, Invariance, PTL DEF Spec, DeletedIsNotUpdated

\* Rows are whole definitions and requests stay in their states, whatever
\* clients send.
THEOREM TypeCorrect == Spec => []TypeOK
<1>1. IInv => TypeOK
  BY DEF IInv
<1> QED  BY <1>1, Invariance, PTL
=============================================================================
