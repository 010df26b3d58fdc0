SPECIFICATION Spec
CONSTANTS
  Requests = {r1, r2, r3}
  Updaters = {r3}
  Aliases = {a1, a2}
  Images = {i1, i2}
  Mems = {g}
  Tags = {t, empty}
  NoTags = empty
  Blank = blank
  None = none
INVARIANTS TypeOK AliasesUnique
PROPERTIES DeletedIsNotUpdated OthersKept
\* Every request is made once.
CHECK_DEADLOCK FALSE
