----------------------------- MODULE MCScreens -----------------------------
(***************************************************************************)
(* Small instances of the modules about what the window shows: a terminal  *)
(* session and the console of its tab, the two file panes, and the rows of *)
(* a pane with their selection.  They do not touch one another's state, so *)
(* each behaviour plays one of them, its scene, while the others rest in   *)
(* one of their initial states.                                            *)
(***************************************************************************)
EXTENDS Console, Panes, PaneRows

File(n, s) == [name |-> n, isDir |-> FALSE, size |-> s]
Dir(n) == [name |-> n, isDir |-> TRUE, size |-> 0]
\* Files whose sizes order them as their names do not, some of them clamped.
MCListings == {{File(1, 1), File(2, 3), Dir(3)},
               {File(1, 3), File(2, 2), File(4, 1), Dir(3)}, {}}

-----------------------------------------------------------------------------
VARIABLE scene
allVars == <<scene, consoleVars, paneVars, rowVars>>

Init ==
  /\ scene \in {"console", "panes", "rows"}
  /\ ConsoleInit /\ PanesInit
  /\ RowsInit /\ (scene = "rows" \/ listed = <<>>)

Next ==
  \/ scene = "console" /\ ConsoleNext /\ UNCHANGED <<scene, paneVars, rowVars>>
  \/ scene = "panes" /\ PanesNext /\ UNCHANGED <<scene, consoleVars, rowVars>>
  \/ scene = "rows" /\ RowsNext /\ UNCHANGED <<scene, consoleVars, paneVars>>

\* No fair action of a part is enabled in its initial state: resting is fair.
Spec == Init /\ [][Next]_allVars /\ ConsoleFairness /\ PanesFairness

\* Each part's types, while it plays.
AllTypesOK ==
  /\ scene = "console" => ConsoleTypeOK
  /\ scene = "panes" => PanesTypeOK
  /\ scene = "rows" => RowsTypeOK

\* No pane shows the rows of another session than its own, however late a
\* listing comes in, and undisturbed and at rest it shows the folder it names;
\* what the user meant to select is what an operation acts on, through any
\* sorting in between.  RowsAreItsOwn and SeedsAreMeant say what is excepted
\* (main.rs).
PanesAreMeant ==
  /\ scene = "panes" => RowsAreItsOwn
  /\ scene = "rows" => SeedsAreMeant

\* Whatever the order of resizes, typing, prompts and negotiation, a server that
\* follows the size knows the console's once all is delivered, and the
\* auto-login says its part at most once, in order, and before anything typed
\* (telnet/mod.rs, shell.rs, console.rs).
ConsoleInOrder == scene = "console" => SizeFollows /\ LoginInOrder
=============================================================================
