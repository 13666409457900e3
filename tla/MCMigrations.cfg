\* Three servers, one of them older, start and die against one database.
SPECIFICATION MigrationsSpec
CONSTANTS
  old = old
  Servers = {old, s1, s2}
  Knows <- MCKnows
  MaxFailures = 3
  None = None
\* Every server may be serving, with no failure left.
CHECK_DEADLOCK FALSE
INVARIANTS AppliedOnceInOrder ServedIsMigrated
PROPERTIES EveryServerStarts
