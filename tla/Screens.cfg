\* One session after another, two pieces of server output, one thing typed;
\* two clicks, and one foreign change of a folder; four clicks on the rows.
SPECIFICATION Spec
CONSTANTS
  Transports = {"telnet", "shell"}
  GridSizes = {1, 2}
  FirstSize = 1
  MaxConsoles = 1
  MaxChunks = 2
  MaxTyped = 1
  Dirs = {"/", "d"}
  RootDir = "/"
  MaxChanges = 1
  MaxMoves = 2
  MaxEvents = 1
  MaxSessions = 2
  RowListings <- MCListings
  ClampedAt = 2
  MaxRowClicks = 4
INVARIANTS AllTypesOK PanesAreMeant ConsoleInOrder
PROPERTIES NoticedAtFirstIsShown DeadIsShown
CHECK_DEADLOCK FALSE
