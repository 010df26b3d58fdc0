---------------------------- MODULE Definitions ----------------------------
(***************************************************************************)
(* Requests that create, update and delete definitions at the same time    *)
(* (services/definition.go, state/pg_state_manager.go).  Each is a handler *)
(* of the API with several calls to Postgres; a transaction reads nothing  *)
(* the program uses and is one step here.  Aliases are unique by a         *)
(* constraint of the table; tags are kept in a table of their own, which   *)
(* refers to the definition and which no query of definitions reads; ports *)
(* are as tags, and left out.                                              *)
(***************************************************************************)
EXTENDS Naturals

CONSTANTS
  Requests,                     \* each makes one request; its id is that of what it creates
  Updaters,                     \* the requests that may be updates
  Aliases, Images, Mems, Tags,  \* values of the columns
  NoTags,                       \* the empty list of tags
  Blank,                        \* the tags a query returns in place of those saved
  None                          \* no definition, or no value of a column

ASSUME DefinitionsAssumption ==
  /\ Updaters \subseteq Requests
  /\ NoTags \in Tags
  /\ Blank \notin Tags
  /\ None \notin Aliases \union Images \union Mems \union Tags \union {Blank}

VARIABLES
  defs,   \* the table of definitions, with their tags
  asked,  \* what each request asks for: the columns to set
  req     \* each request: where it is, the definition it is about, the row it is to write

vars == <<defs, asked, req>>

\* A definition as a client may send it, and as IsValid accepts it.
Body == [alias  : Aliases \union {None}, image : Images \union {None},
         memory : Mems \union {None},    tags  : Tags \union {None, Blank}]
Row  == {row \in Body : row.alias # None /\ row.image # None}

\* A null row is no definition.
ASSUME NoneAssumption == None \notin Row

Nothing == [alias |-> None, image |-> None, memory |-> None, tags |-> None]

RequestStates == {"new", "insert", "get", "write", "done", "failed"}

TypeOK ==
  /\ defs \in [Requests -> Row \union {None}]
  /\ asked \in [Requests -> Body]
  /\ req \in [Requests -> [pc : RequestStates, id : Requests, row : Body]]

Init ==
  /\ defs = [d \in Requests |-> None]
  /\ asked = [r \in Requests |-> Nothing]
  /\ req = [r \in Requests |-> [pc |-> "new", id |-> r, row |-> Nothing]]

Goto(r, there) == req' = [req EXCEPT ![r].pc = there]

GetDefinition(d) == [defs[d] EXCEPT !.tags = Blank]

\* Bugs: an update replaces the whole definition, or forgets the memory it does
\* not name.
ReplaceWith(row, updates) == updates

Over(update, value) == IF update # None THEN update ELSE value

ForgetMemory(row, updates) ==
  [alias  |-> Over(updates.alias, row.alias), image |-> Over(updates.image, row.image),
   memory |-> updates.memory,                 tags  |-> Over(updates.tags, row.tags)]

UpdateWith(row, updates) ==
  [alias  |-> Over(updates.alias, row.alias),   image |-> Over(updates.image, row.image),
   memory |-> Over(updates.memory, row.memory), tags  |-> Over(updates.tags, row.tags)]

\* A bug: the table has no constraint on aliases.
AnyAlias(alias, d) == TRUE

AliasFree(alias, d) == \A e \in Requests \ {d} : defs[e] # None => defs[e].alias # alias

\* A create finds its alias free or is refused.
CheckAlias(r) ==
  /\ req[r].pc = "new"
  /\ \E row \in Row :
       /\ row.tags # Blank
       /\ asked' = [asked EXCEPT ![r] = row]
       /\ \E there \in IF \E d \in Requests : defs[d] # None /\ defs[d].alias = row.alias
                       THEN {"failed"} ELSE {"insert"} :
            req' = [req EXCEPT ![r] = [pc |-> there, id |-> r, row |-> row]]
  /\ UNCHANGED defs

CreateDefinition(r) ==
  /\ req[r].pc = "insert"
  /\ IF AliasFree(req[r].row.alias, r)
     THEN defs' = [defs EXCEPT ![r] = req[r].row] /\ Goto(r, "done")
     ELSE Goto(r, "failed") /\ UNCHANGED defs
  /\ UNCHANGED asked

\* An update of a definition reads it and puts what the client sent over it.
Update(r) ==
  /\ r \in Updaters /\ req[r].pc = "new"
  /\ \E d \in Requests, updates \in Body :
       /\ defs[d] # None /\ updates.tags # Blank
       /\ asked' = [asked EXCEPT ![r] = updates]
       /\ req' = [req EXCEPT ![r] =
                    [pc |-> "get", id |-> d, row |-> UpdateWith(GetDefinition(d), updates)]]
  /\ UNCHANGED defs

\* The state manager reads it again, and puts the result of Update over it.
UpdateAgain(r) ==
  /\ req[r].pc = "get"
  /\ IF defs[req[r].id] = None
     THEN Goto(r, "failed")
     ELSE req' = [req EXCEPT ![r].pc = "write",
                             ![r].row = UpdateWith(GetDefinition(req[r].id), req[r].row)]
  /\ UNCHANGED <<defs, asked>>

\* A bug: the tags do not refer to the definition.
AliasWritable(row, d) == AliasFree(row.alias, d)

\* The alias may be taken.  Of a definition that is gone there is nothing to
\* update, and any tags refer to nothing; without tags there is no error.
Writable(row, d) == IF defs[d] = None THEN row.tags = NoTags ELSE AliasFree(row.alias, d)

\* The transaction of UpdateDefinition.
Write(r) ==
  /\ req[r].pc = "write"
  /\ LET d == req[r].id IN
       IF Writable(req[r].row, d)
       THEN /\ defs' = [defs EXCEPT ![d] = IF @ = None THEN None ELSE req[r].row]
            /\ Goto(r, "done")
       ELSE Goto(r, "failed") /\ UNCHANGED defs
  /\ UNCHANGED asked

DeleteDefinition(r) ==
  /\ req[r].pc = "new"
  /\ \E d \in Requests : defs' = [defs EXCEPT ![d] = None]
  /\ Goto(r, "done")
  /\ UNCHANGED asked

\* Any call to Postgres may fail, and its transaction is undone.
CallFails(r) ==
  /\ req[r].pc \notin {"done", "failed"}
  /\ Goto(r, "failed") /\ UNCHANGED <<defs, asked>>

Handle(r) ==
  \/ CheckAlias(r) \/ CreateDefinition(r)
  \/ Update(r) \/ UpdateAgain(r) \/ Write(r)
  \/ DeleteDefinition(r) \/ CallFails(r)

Next == \E r \in Requests : Handle(r)

Spec == Init /\ [][Next]_vars

-----------------------------------------------------------------------------
Updated(r) == req[r].pc = "write" /\ req'[r].pc = "done"

\* No two definitions share an alias, however creates and updates interleave
\* (GetDefinitionByAlias, and runs created by alias, rely on it).
AliasesUnique ==
  \A d, e \in Requests :
    defs[d] # None /\ defs[e] # None /\ defs[d].alias = defs[e].alias => d = e

\* A definition deleted after an update read it does not come back, and the
\* update is answered with an error, unless it replaces the tags by none: then
\* no table has a reference that could fail, and "updated" is said of nothing.
DeletedIsNotUpdated ==
  [][\A r \in Requests : Updated(r) /\ defs[req[r].id] = None =>
       defs'[req[r].id] = None /\ asked[r].tags = NoTags]_vars

\* A partial update leaves the columns it does not name as they were when it
\* was written (UpdateDefinition: "updates can be partial").  It does so only
\* where no two updates are under way at once, so with at most one updater.
OthersKept ==
  [][\A r \in Requests : Updated(r) /\ defs[req[r].id] # None =>
       LET old == defs[req[r].id]
           new == defs'[req[r].id]
       IN  /\ asked[r].alias = None => new.alias = old.alias
           /\ asked[r].image = None => new.image = old.image
           /\ asked[r].memory = None => new.memory = old.memory]_vars
=============================================================================
