SPECIFICATION MCSpec
CONSTANTS
  Threads = {t1, t2}
  MaxExport = 2
  MaxClean = 1
  MaxAsking = 2
  Resends = 1
  Deaths = 1
  MaxVersion = 2
  MaxRow = 3
CHECK_DEADLOCK FALSE
INVARIANTS TypesOK OneAtATime OnlyDisorderMisleads
PROPERTIES OnlyExpiredFilesGo OnlyOverlapsErr JobsEnd NothingHangs
