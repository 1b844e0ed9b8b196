SPECIFICATION FairSpec
CONSTANTS
  NULL = NULL
  MaxIds = 2
  Destinations = {d1}
  Dirs = {e1}
  MaxSchema = 3
  MaxEvents = 1
  MaxQuiet = 1
INVARIANTS
  TypeOK
  PublishedIsCommitted
  RestoredAsArchived
PROPERTIES
  LogIsKept
  ComesToOpen
CHECK_DEADLOCK FALSE
