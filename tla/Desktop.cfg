\* Two dials, three tabs and four clicks; two copies, queued twice over; four
\* clicks in the queue dialog over two transfers.
SPECIFICATION Spec
CONSTANTS
  Attempts = {a1, a2}
  Dirs = {"/", "/d"}
  RootDir = "/"
  MaxTabs = 3
  MaxSessions = 2
  MaxClicks = 4
  MaxEvents = 1
  t1 = t1
  t2 = t2
  Copies = {t1, t2}
  CopyBatches <- MCBatches
  AsksBefore = TRUE
  MaxQueueings = 2
  MaxCrashes = 1
  QueueTasks = {q1, q2}
  QueueFilters = {0, 1}
  AutoClearModes = {0, 3}
  DefaultMode = 0
  MaxPending = 2
  MaxQueueClicks = 4
SYMMETRY Same
INVARIANTS AllTypesOK WindowKeepsTrack CopiesAreSafe
\* All stop when nothing is left to click, queue or answer.
CHECK_DEADLOCK FALSE
